---- MODULE Spec2Model ----
(***************************************************************************)
(* A model of the syslog line parser: the byte cursor (buffer), the field  *)
(* parsers, the three built-in formats, the driver ParseMessage and the    *)
(* RFC5424 encoder Message.Bytes.                                          *)
(*                                                                         *)
(* A byte is a string: printable ASCII bytes are the one-character string, *)
(* the three bytes of the UTF-8 byte order mark are "EF", "BB" and "BF",   *)
(* the grave accent is "GRAVE".                                            *)
(* A Go string or []byte is a sequence of bytes.  Go slices are indexed    *)
(* from 0 and sequences from 1: buf.bytes[i] of the code is bytes[i + 1].  *)
(***************************************************************************)
EXTENDS Integers, Sequences, FiniteSets, TLC

\* ------------------------------------------------------------------------
\* Constants of parsers.go and priority.go.
\* ------------------------------------------------------------------------
maxPriorityLength == 3
maxVersionLength == 2
maxHostnameLength == 255
maxAppNameLength == 48
maxProcessIDLength == 128
maxMessageIDLength == 32
maxDataIDLength == 32
maxDataParamLength == 32

spaceByte == " "
nilValueByte == "-"
equalByte == "="
qouteByte == "\""
commaByte == ","
colonByte == ":"
priorityStart == "<"
priorityEnd == ">"
dataStart == "["
dataEnd == "]"

nilValue == <<nilValueByte>>
bom == <<"EF", "BB", "BF">>

multiplier == 8
maxFacility == 23
maxSeverity == 7
maxPriority == maxFacility * multiplier + maxSeverity

\* ------------------------------------------------------------------------
\* Bytes, numbers and the library functions the parsers call.
\* ------------------------------------------------------------------------
Digits == <<"0", "1", "2", "3", "4", "5", "6", "7", "8", "9">>

IsDigit(c) == \E i \in 1..10 : Digits[i] = c

DigitVal(c) == (CHOOSE i \in 1..10 : Digits[i] = c) - 1

AllDigits(s) == \A i \in 1..Len(s) : IsDigit(s[i])

RECURSIVE DecVal(_)
DecVal(s) ==
    IF Len(s) = 0 THEN 0
    ELSE 10 * DecVal(SubSeq(s, 1, Len(s) - 1)) + DigitVal(s[Len(s)])

\* strconv.AppendUint(b, n, 10): the decimal digits of n, no padding.
RECURSIVE AppendUint(_)
AppendUint(n) ==
    IF n < 10 THEN <<Digits[n + 1]>>
    ELSE AppendUint(n \div 10) \o <<Digits[(n % 10) + 1]>>

\* The decimal digits of n, zero padded on the left to width w.
RECURSIVE Pad(_, _)
Pad(n, w) ==
    IF w = 0 THEN <<>>
    ELSE Pad(n \div 10, w - 1) \o <<Digits[(n % 10) + 1]>>

\* strconv.Atoi: an optional sign followed by at least one decimal digit.
Atoi(s) ==
    LET signed == Len(s) > 0 /\ s[1] \in {"+", "-"}
        digits == IF signed THEN SubSeq(s, 2, Len(s)) ELSE s
    IN  IF Len(digits) = 0 \/ ~AllDigits(digits)
        THEN [ok |-> FALSE, n |-> 0]
        ELSE [ok |-> TRUE,
              n |-> IF signed /\ s[1] = "-" THEN 0 - DecVal(digits)
                    ELSE DecVal(digits)]

\* strconv.ParseUint(s, 10, 0): at least one decimal digit, no sign.
ParseUint(s) ==
    IF Len(s) = 0 \/ ~AllDigits(s)
    THEN [ok |-> FALSE, n |-> 0]
    ELSE [ok |-> TRUE, n |-> DecVal(s)]

Uint8(n) == n % 256

IsSpace(c) == c \in {" ", "\t", "\n", "\r"}

\* bytes.TrimSpace and strings.TrimSpace.
TrimSpace(s) ==
    LET keep == {i \in 1..Len(s) : ~IsSpace(s[i])}
    IN  IF keep = {} THEN <<>>
        ELSE SubSeq(s, CHOOSE i \in keep : \A j \in keep : i <= j,
                       CHOOSE i \in keep : \A j \in keep : i >= j)

HasPrefix(s, prefix) ==
    Len(s) >= Len(prefix) /\ SubSeq(s, 1, Len(prefix)) = prefix

HasSuffix(s, suffix) ==
    Len(s) >= Len(suffix)
    /\ SubSeq(s, Len(s) - Len(suffix) + 1, Len(s)) = suffix

TrimPrefix(s, prefix) ==
    IF HasPrefix(s, prefix) THEN SubSeq(s, Len(prefix) + 1, Len(s)) ELSE s

TrimSuffix(s, suffix) ==
    IF HasSuffix(s, suffix) THEN SubSeq(s, 1, Len(s) - Len(suffix)) ELSE s

\* strconv.AppendQuote: the value in double quotes, with '"' and '\' escaped.
RECURSIVE QuoteBody(_)
QuoteBody(s) ==
    IF Len(s) = 0 THEN <<>>
    ELSE (IF s[1] \in {"\"", "\\"} THEN <<"\\", s[1]>> ELSE <<s[1]>>)
         \o QuoteBody(Tail(s))

AppendQuote(s) == <<"\"">> \o QuoteBody(s) \o <<"\"">>

\* ------------------------------------------------------------------------
\* Errors.  A reason is the fixed text followed by the bytes it quotes.
\* ------------------------------------------------------------------------
Nil == [kind |-> "nil", pos |-> 0, reason |-> <<>>]

EOF == [kind |-> "EOF", pos |-> 0, reason |-> <<>>]

ErrUnexpectedEOF == [kind |-> "ErrUnexpectedEOF", pos |-> 0, reason |-> <<>>]

newFormatError(pos, reason) ==
    [kind |-> "format", pos |-> pos, reason |-> reason]

\* A run-time panic: the goroutine aborts, nothing is returned.
Panic(reason) == [kind |-> "panic", pos |-> 0, reason |-> <<reason>>]

\* ------------------------------------------------------------------------
\* buffer: the cursor.
\* ------------------------------------------------------------------------
newBuffer(b) == [bytes |-> b, length |-> Len(b), position |-> 0]

maxRead(buf) == buf.length - buf.position

\* The position reported in format errors: the one-based index of the next
\* byte, and the length of the input once everything is read.
Pos(buf) ==
    IF buf.position + 1 > buf.length THEN buf.length ELSE buf.position + 1

\* Discard that moves by n whatever is left.
DiscardUnchecked(buf, n) ==
    [buf |-> [buf EXCEPT !.position = @ + n], discarded |-> n]

Discard(buf, n) ==
    LET nn == IF n > maxRead(buf) THEN maxRead(buf) ELSE n
    IN  [buf |-> [buf EXCEPT !.position = @ + nn], discarded |-> nn]

Peek(buf, n) ==
    LET short == n > maxRead(buf)
        nn == IF short THEN maxRead(buf) ELSE n
    IN  [bytes |-> SubSeq(buf.bytes, buf.position + 1, buf.position + nn),
         err |-> IF short THEN EOF ELSE Nil]

ReadByte(buf) ==
    IF buf.position = buf.length
    THEN [buf |-> buf, c |-> "", err |-> EOF]
    ELSE [buf |-> [buf EXCEPT !.position = @ + 1],
          c |-> buf.bytes[buf.position + 1], err |-> Nil]

\* UnreadByte that leaves the position where it is.
UnreadByteStay(buf) == [buf |-> buf, err |-> Nil]

UnreadByte(buf) ==
    IF buf.position = 0
    THEN [buf |-> buf, err |-> Panic("syslog: can't unread byte")]
    ELSE [buf |-> [buf EXCEPT !.position = @ - 1], err |-> Nil]

\* ReadSlice up to the last occurrence of c.
ReadSliceToLast(buf, c) ==
    LET found == {i \in (buf.position + 1)..buf.length : buf.bytes[i] = c}
    IN  IF found # {}
        THEN LET end == CHOOSE i \in found : \A j \in found : i >= j
             IN  [bytes |-> SubSeq(buf.bytes, buf.position + 1, end),
                  buf |-> [buf EXCEPT !.position = end], err |-> Nil]
        ELSE [bytes |-> SubSeq(buf.bytes, buf.position + 1, buf.length),
              buf |-> [buf EXCEPT !.position = buf.length], err |-> EOF]

ReadSlice(buf, c) ==
    LET found == {i \in (buf.position + 1)..buf.length : buf.bytes[i] = c}
    IN  IF found # {}
        THEN LET end == CHOOSE i \in found : \A j \in found : i <= j
             IN  [bytes |-> SubSeq(buf.bytes, buf.position + 1, end),
                  buf |-> [buf EXCEPT !.position = end], err |-> Nil]
        ELSE [bytes |-> SubSeq(buf.bytes, buf.position + 1, buf.length),
              buf |-> [buf EXCEPT !.position = buf.length], err |-> EOF]

ReadAll(buf) ==
    [bytes |-> SubSeq(buf.bytes, buf.position + 1, buf.length),
     buf |-> [buf EXCEPT !.position = buf.length]]

\* ------------------------------------------------------------------------
\* time.Time, time.ParseInLocation and Time.AppendFormat for the layouts the
\* formats use.  A time is its calendar fields and its zone offset in
\* minutes.  Fields are matched in their canonical widths (two-digit hour,
\* capitalised month names).
\* ------------------------------------------------------------------------
ZeroTime ==
    [year |-> 1, month |-> 1, day |-> 1, hour |-> 0, min |-> 0, sec |-> 0,
     nsec |-> 0, offset |-> 0]

\* Time.IsZero: the instant January 1, year 1, 00:00:00 UTC.
IsZero(t) ==
    /\ t.sec = 0 /\ t.nsec = 0
    /\ \/ t.offset >= 0 /\ t.year = 1 /\ t.month = 1 /\ t.day = 1
          /\ t.hour * 60 + t.min = t.offset
       \/ t.offset < 0 /\ t.year = 0 /\ t.month = 12 /\ t.day = 31
          /\ t.hour * 60 + t.min = 1440 + t.offset

\* Time.Equal on the times a parse produces.
TimeEqual(a, b) == a = b \/ (IsZero(a) /\ IsZero(b))

isLeap(year) == year % 4 = 0 /\ (year % 100 # 0 \/ year % 400 = 0)

daysIn(month, year) ==
    IF month = 2 THEN (IF isLeap(year) THEN 29 ELSE 28)
    ELSE IF month \in {4, 6, 9, 11} THEN 30 ELSE 31

validClock(t) ==
    /\ t.month \in 1..12
    /\ t.day \in 1..daysIn(t.month, t.year)
    /\ t.hour \in 0..23 /\ t.min \in 0..59 /\ t.sec \in 0..59

NoTime == [ok |-> FALSE, t |-> ZeroTime]

\* The digits of a fractional second as nanoseconds (nine digits are used).
fracNanos(digits) ==
    DecVal([i \in 1..9 |-> IF i <= Len(digits) THEN digits[i] ELSE "0"])

\* The zone of layout element Z07:00: "Z", or a sign, hours ':' minutes.
parseZone(z) ==
    IF z = <<"Z">> THEN [ok |-> TRUE, offset |-> 0]
    ELSE IF /\ Len(z) = 6 /\ z[1] \in {"+", "-"} /\ z[4] = ":"
            /\ AllDigits(SubSeq(z, 2, 3)) /\ AllDigits(SubSeq(z, 5, 6))
            /\ DecVal(SubSeq(z, 2, 3)) <= 23 /\ DecVal(SubSeq(z, 5, 6)) <= 59
    THEN LET m == DecVal(SubSeq(z, 2, 3)) * 60 + DecVal(SubSeq(z, 5, 6))
         IN  [ok |-> TRUE, offset |-> IF z[1] = "-" THEN 0 - m ELSE m]
    ELSE [ok |-> FALSE, offset |-> 0]

\* time.RFC3339 and time.RFC3339Nano parse the same texts: date 'T' clock,
\* an optional fraction of a second, a zone, and nothing after it.
parseRFC3339(s) ==
    IF ~ /\ Len(s) >= 20
         /\ AllDigits(SubSeq(s, 1, 4)) /\ s[5] = "-"
         /\ AllDigits(SubSeq(s, 6, 7)) /\ s[8] = "-"
         /\ AllDigits(SubSeq(s, 9, 10)) /\ s[11] = "T"
         /\ AllDigits(SubSeq(s, 12, 13)) /\ s[14] = ":"
         /\ AllDigits(SubSeq(s, 15, 16)) /\ s[17] = ":"
         /\ AllDigits(SubSeq(s, 18, 19))
    THEN NoTime
    ELSE LET hasFrac == Len(s) >= 21 /\ s[20] = "." /\ IsDigit(s[21])
             nonDigit == {i \in 21..Len(s) : ~IsDigit(s[i])}
             zoneAt == IF ~hasFrac THEN 20
                       ELSE IF nonDigit = {} THEN Len(s) + 1
                       ELSE CHOOSE i \in nonDigit : \A j \in nonDigit : i <= j
             zone == parseZone(SubSeq(s, zoneAt, Len(s)))
             t == [year |-> DecVal(SubSeq(s, 1, 4)),
                   month |-> DecVal(SubSeq(s, 6, 7)),
                   day |-> DecVal(SubSeq(s, 9, 10)),
                   hour |-> DecVal(SubSeq(s, 12, 13)),
                   min |-> DecVal(SubSeq(s, 15, 16)),
                   sec |-> DecVal(SubSeq(s, 18, 19)),
                   nsec |-> IF hasFrac
                            THEN fracNanos(SubSeq(s, 21, zoneAt - 1)) ELSE 0,
                   offset |-> zone.offset]
         IN  IF zone.ok /\ validClock(t) THEN [ok |-> TRUE, t |-> t]
             ELSE NoTime

Months ==
    << <<"J", "a", "n">>, <<"F", "e", "b">>, <<"M", "a", "r">>,
       <<"A", "p", "r">>, <<"M", "a", "y">>, <<"J", "u", "n">>,
       <<"J", "u", "l">>, <<"A", "u", "g">>, <<"S", "e", "p">>,
       <<"O", "c", "t">>, <<"N", "o", "v">>, <<"D", "e", "c">> >>

\* The layout "Jan _2 15:04:05": no year (year 0) and no zone (local time).
parseStamp(s) ==
    IF ~ /\ Len(s) = 15
         /\ \E m \in 1..12 : Months[m] = SubSeq(s, 1, 3)
         /\ s[4] = " "
         /\ (s[5] = " " \/ IsDigit(s[5])) /\ IsDigit(s[6])
         /\ s[7] = " "
         /\ AllDigits(SubSeq(s, 8, 9)) /\ s[10] = ":"
         /\ AllDigits(SubSeq(s, 11, 12)) /\ s[13] = ":"
         /\ AllDigits(SubSeq(s, 14, 15))
    THEN NoTime
    ELSE LET t == [year |-> 0,
                   month |-> CHOOSE m \in 1..12 : Months[m] = SubSeq(s, 1, 3),
                   day |-> IF s[5] = " " THEN DigitVal(s[6])
                           ELSE DecVal(SubSeq(s, 5, 6)),
                   hour |-> DecVal(SubSeq(s, 8, 9)),
                   min |-> DecVal(SubSeq(s, 11, 12)),
                   sec |-> DecVal(SubSeq(s, 14, 15)),
                   nsec |-> 0, offset |-> 0]
         IN  IF validClock(t) THEN [ok |-> TRUE, t |-> t] ELSE NoTime

\* len(format) of a layout.
LayoutLen(format) ==
    CASE format = "RFC3339" -> 25
      [] format = "RFC3339Nano" -> 35
      [] format = "Stamp" -> 15

ParseInLocation(format, s) ==
    IF format = "Stamp" THEN parseStamp(s) ELSE parseRFC3339(s)

\* nsec as ".fraction" without trailing zeros, empty when nsec is 0.
RECURSIVE TrimZeros(_)
TrimZeros(s) ==
    IF Len(s) > 0 /\ s[Len(s)] = "0" THEN TrimZeros(SubSeq(s, 1, Len(s) - 1))
    ELSE s

\* t.AppendFormat(b, time.RFC3339Nano)
AppendFormat(t) ==
    LET abs == IF t.offset < 0 THEN 0 - t.offset ELSE t.offset
    IN  Pad(t.year, 4) \o <<"-">> \o Pad(t.month, 2) \o <<"-">>
        \o Pad(t.day, 2) \o <<"T">> \o Pad(t.hour, 2) \o <<":">>
        \o Pad(t.min, 2) \o <<":">> \o Pad(t.sec, 2)
        \o (IF t.nsec = 0 THEN <<>> ELSE <<".">> \o TrimZeros(Pad(t.nsec, 9)))
        \o (IF t.offset = 0 THEN <<"Z">>
            ELSE <<IF t.offset < 0 THEN "-" ELSE "+">> \o Pad(abs \div 60, 2)
                 \o <<":">> \o Pad(abs % 60, 2))

\* time.Now().Year()
CurrentYear == 2015

\* ------------------------------------------------------------------------
\* Message and Priority.
\* ------------------------------------------------------------------------
\* A map is a function; the nil map and the empty map have no keys.
EmptyMap == <<>>

\* var msg Message: every field at its zero value.
Message ==
    [Priority |-> 0, Facility |-> 0, Severity |-> 0, Version |-> 0,
     Timestamp |-> ZeroTime, Hostname |-> <<>>, Appname |-> <<>>,
     ProcessID |-> <<>>, MessageID |-> <<>>, Data |-> EmptyMap,
     Message |-> <<>>]

CalculateFacility(priority) == Uint8(priority \div multiplier)

\* The severity taken as the remainder by maxSeverity.
CalculateSeverityByMax(priority) == Uint8(priority % maxSeverity)

CalculateSeverity(priority) ==
    Uint8(priority - Uint8(Uint8(priority \div multiplier) * multiplier))

CalculatePriority(facility, severity) ==
    Uint8(facility * multiplier + severity)

PriorityIsValid(priority) == priority <= maxPriority

\* ------------------------------------------------------------------------
\* The field parsers of parsers.go.  A parseFunc takes the cursor and the
\* Message and yields the cursor, the Message and the error it returns.
\* ------------------------------------------------------------------------
\* checkByte taking the position after it read the byte.
checkByteCountingFromZero(buf, expected) ==
    LET r == ReadByte(buf)
    IN  IF r.err # Nil THEN [buf |-> r.buf, err |-> r.err]
        ELSE IF r.c # expected
        THEN [buf |-> r.buf,
              err |-> newFormatError(buf.position,
                                     <<"expected byte, but got", expected, r.c>>)]
        ELSE [buf |-> r.buf, err |-> Nil]

checkByte(buf, expected) ==
    LET startPos == Pos(buf)
        r == ReadByte(buf)
    IN  IF r.err # Nil THEN [buf |-> r.buf, err |-> r.err]
        ELSE IF r.c # expected
        THEN [buf |-> r.buf,
              err |-> newFormatError(startPos,
                                     <<"expected byte, but got", expected, r.c>>)]
        ELSE [buf |-> r.buf, err |-> Nil]

\* nextIsNilValue that never finds the nil value.
nextIsNilValueNever(buf) == [buf |-> buf, isNil |-> FALSE, err |-> Nil]

\* isNil tells whether the nil value byte was read; err is the panic of
\* UnreadByte, if any.
nextIsNilValue(buf) ==
    LET r == ReadByte(buf)
    IN  IF r.err = Nil /\ r.c = nilValueByte
        THEN [buf |-> r.buf, isNil |-> TRUE, err |-> Nil]
        ELSE IF r.err # EOF
        THEN LET u == UnreadByte(r.buf)
             IN  [buf |-> u.buf, isNil |-> FALSE, err |-> u.err]
        ELSE [buf |-> r.buf, isNil |-> FALSE, err |-> Nil]

\* parsePriority that converts the priority before it checks its length.
parsePriorityNumberFirst(buf, msg) ==
    LET cb == checkByte(buf, priorityStart)
        startPos == Pos(cb.buf)
        rs == ReadSlice(cb.buf, priorityEnd)
        priorityBytes == SubSeq(rs.bytes, 1, Len(rs.bytes) - 1)
        priority == Atoi(priorityBytes)
    IN  IF cb.err # Nil THEN [buf |-> cb.buf, msg |-> msg, err |-> cb.err]
        ELSE IF rs.err = EOF
        THEN [buf |-> rs.buf, msg |-> msg,
              err |-> newFormatError(Pos(rs.buf), <<"priority not closed">>)]
        ELSE IF Len(priorityBytes) = 0
        THEN [buf |-> rs.buf, msg |-> msg,
              err |-> newFormatError(startPos, <<"priority can't be empty">>)]
        ELSE IF ~priority.ok
        THEN [buf |-> rs.buf, msg |-> msg,
              err |-> newFormatError(startPos, <<"priority not a number: ">>
                                               \o priorityBytes)]
        ELSE IF Len(rs.bytes) > maxPriorityLength + 1
        THEN [buf |-> rs.buf, msg |-> msg,
              err |-> newFormatError(startPos + maxPriorityLength,
                                     <<"priority too long">>)]
        ELSE [buf |-> rs.buf,
              msg |-> [msg EXCEPT !.Priority = Uint8(priority.n)],
              err |-> Nil]

parsePriority(buf, msg) ==
    LET cb == checkByte(buf, priorityStart)
        startPos == Pos(cb.buf)
        rs == ReadSlice(cb.buf, priorityEnd)
        priorityBytes == SubSeq(rs.bytes, 1, Len(rs.bytes) - 1)
        priority == Atoi(priorityBytes)
    IN  IF cb.err # Nil THEN [buf |-> cb.buf, msg |-> msg, err |-> cb.err]
        ELSE IF rs.err = EOF
        THEN LET pos == IF startPos + maxPriorityLength > Pos(rs.buf)
                        THEN Pos(rs.buf) ELSE startPos + maxPriorityLength
             IN  [buf |-> rs.buf, msg |-> msg,
                  err |-> newFormatError(pos, <<"priority not closed">>)]
        ELSE IF Len(rs.bytes) > maxPriorityLength + 1
        THEN [buf |-> rs.buf, msg |-> msg,
              err |-> newFormatError(startPos + maxPriorityLength,
                                     <<"priority too long">>)]
        ELSE IF Len(priorityBytes) = 0
        THEN [buf |-> rs.buf, msg |-> msg,
              err |-> newFormatError(startPos, <<"priority can't be empty">>)]
        ELSE IF ~priority.ok
        THEN [buf |-> rs.buf, msg |-> msg,
              err |-> newFormatError(startPos, <<"priority not a number: ">>
                                               \o priorityBytes)]
        ELSE [buf |-> rs.buf,
              msg |-> [msg EXCEPT !.Priority = Uint8(priority.n)],
              err |-> Nil]

\* parseVersion that discards all the bytes it peeked at.
parseVersionDiscardPeeked(buf, msg) ==
    LET peeked == Peek(buf, maxVersionLength).bytes
        l0 == Len(peeked)
        versionBytes == IF l0 = 2 /\ peeked[2] = spaceByte
                        THEN SubSeq(peeked, 1, 1) ELSE peeked
        version == ParseUint(versionBytes)
        d == Discard(buf, l0)
    IN  IF l0 = 0 \/ (l0 >= 1 /\ peeked[1] = spaceByte)
        THEN [buf |-> buf, msg |-> msg, err |-> Nil]
        ELSE IF ~version.ok
        THEN [buf |-> buf, msg |-> msg,
              err |-> newFormatError(Pos(buf), <<"version not a number: ">>
                                               \o versionBytes)]
        ELSE [buf |-> d.buf, msg |-> [msg EXCEPT !.Version = version.n],
              err |-> Nil]

parseVersion(buf, msg) ==
    LET peeked == Peek(buf, maxVersionLength).bytes
        l0 == Len(peeked)
        versionBytes == IF l0 = 2 /\ peeked[2] = spaceByte
                        THEN SubSeq(peeked, 1, 1) ELSE peeked
        l == Len(versionBytes)
        version == ParseUint(versionBytes)
        d == Discard(buf, l)
    IN  IF l0 = 0 \/ (l0 >= 1 /\ peeked[1] = spaceByte)
        THEN [buf |-> buf, msg |-> msg, err |-> Nil]
        ELSE IF ~version.ok
        THEN [buf |-> buf, msg |-> msg,
              err |-> newFormatError(Pos(buf), <<"version not a number: ">>
                                               \o versionBytes)]
        ELSE IF d.discarded # l THEN [buf |-> d.buf, msg |-> msg, err |-> EOF]
        ELSE [buf |-> d.buf, msg |-> [msg EXCEPT !.Version = version.n],
              err |-> Nil]

\* parseTimestampf that discards the bytes before it parses them.
parseTimestampfConsuming(buf, format) ==
    LET pk == Peek(buf, LayoutLen(format))
        tm == ParseInLocation(format, pk.bytes)
        d == Discard(buf, LayoutLen(format))
    IN  IF pk.err # Nil THEN [buf |-> d.buf, t |-> ZeroTime, err |-> pk.err]
        ELSE IF ~tm.ok
        THEN [buf |-> d.buf, t |-> ZeroTime,
              err |-> newFormatError(0, <<"parsing time">>)]
        ELSE [buf |-> d.buf, t |-> tm.t, err |-> Nil]

parseTimestampf(buf, format) ==
    LET pk == Peek(buf, LayoutLen(format))
        tm == ParseInLocation(format, pk.bytes)
        d == Discard(buf, LayoutLen(format))
    IN  IF pk.err # Nil THEN [buf |-> buf, t |-> ZeroTime, err |-> pk.err]
        ELSE IF ~tm.ok
        THEN [buf |-> buf, t |-> ZeroTime,
              err |-> newFormatError(0, <<"parsing time">>)]
        ELSE IF d.discarded # LayoutLen(format)
        THEN [buf |-> d.buf, t |-> ZeroTime, err |-> EOF]
        ELSE [buf |-> d.buf, t |-> tm.t, err |-> Nil]

\* The loop over the formats of parseTimestamp, from the i-th format on.
RECURSIVE tryFormats(_, _, _, _)
tryFormats(formats, i, buf, msg) ==
    IF i > Len(formats)
    THEN [buf |-> buf, msg |-> msg,
          err |-> newFormatError(Pos(buf),
                     <<"timestamp is not following an accepted format">>)]
    ELSE LET r == parseTimestampf(buf, formats[i])
         IN  IF r.err # Nil THEN tryFormats(formats, i + 1, r.buf, msg)
             ELSE [buf |-> r.buf, msg |-> [msg EXCEPT !.Timestamp = r.t],
                   err |-> Nil]

parseTimestamp(formats, buf, msg) ==
    LET n == nextIsNilValue(buf)
    IN  IF n.err # Nil THEN [buf |-> n.buf, msg |-> msg, err |-> n.err]
        ELSE IF n.isNil THEN [buf |-> n.buf, msg |-> msg, err |-> Nil]
        ELSE tryFormats(formats, 1, n.buf, msg)

parseSingleValue(buf, name, allowNilValue, maxLength) ==
    LET n == IF allowNilValue THEN nextIsNilValue(buf)
             ELSE [buf |-> buf, isNil |-> FALSE, err |-> Nil]
        rs == ReadSlice(n.buf, spaceByte)
        l == Len(rs.bytes)
        max == IF rs.err # EOF THEN maxLength + 1 ELSE maxLength
    IN  IF n.err # Nil THEN [buf |-> n.buf, value |-> <<>>, err |-> n.err]
        ELSE IF n.isNil THEN [buf |-> n.buf, value |-> <<>>, err |-> Nil]
        ELSE IF rs.err = EOF /\ l = 0
        THEN [buf |-> rs.buf, value |-> <<>>, err |-> rs.err]
        ELSE IF l > max
        THEN [buf |-> rs.buf, value |-> <<>>,
              err |-> newFormatError(Pos(rs.buf) - l + 1,
                                     <<name, " too long">>)]
        ELSE IF rs.bytes[l] = spaceByte \/ rs.bytes[l] = dataEnd
        THEN LET u == UnreadByte(rs.buf)
             IN  [buf |-> u.buf, value |-> SubSeq(rs.bytes, 1, l - 1),
                  err |-> u.err]
        ELSE [buf |-> rs.buf, value |-> rs.bytes, err |-> Nil]

parseHostname(buf, msg) ==
    LET r == parseSingleValue(buf, "hostname", TRUE, maxHostnameLength)
    IN  IF r.err # Nil THEN [buf |-> r.buf, msg |-> msg, err |-> r.err]
        ELSE [buf |-> r.buf, msg |-> [msg EXCEPT !.Hostname = r.value],
              err |-> Nil]

parseAppname(buf, msg) ==
    LET r == parseSingleValue(buf, "appname", TRUE, maxAppNameLength)
    IN  IF r.err # Nil THEN [buf |-> r.buf, msg |-> msg, err |-> r.err]
        ELSE [buf |-> r.buf, msg |-> [msg EXCEPT !.Appname = r.value],
              err |-> Nil]

parseProcessID(buf, msg) ==
    LET r == parseSingleValue(buf, "processID", TRUE, maxProcessIDLength)
    IN  IF r.err # Nil THEN [buf |-> r.buf, msg |-> msg, err |-> r.err]
        ELSE [buf |-> r.buf, msg |-> [msg EXCEPT !.ProcessID = r.value],
              err |-> Nil]

parseMessageID(buf, msg) ==
    LET r == parseSingleValue(buf, "messageID", TRUE, maxMessageIDLength)
    IN  IF r.err # Nil THEN [buf |-> r.buf, msg |-> msg, err |-> r.err]
        ELSE [buf |-> r.buf, msg |-> [msg EXCEPT !.MessageID = r.value],
              err |-> Nil]

parseParamName(buf) ==
    LET rs == ReadSlice(buf, equalByte)
        nameBytes == SubSeq(rs.bytes, 1, Len(rs.bytes) - 1)
    IN  IF rs.err # Nil THEN [buf |-> rs.buf, name |-> <<>>, err |-> rs.err]
        ELSE IF Len(nameBytes) > maxDataParamLength
        THEN [buf |-> rs.buf, name |-> <<>>,
              err |-> newFormatError(Pos(rs.buf) - Len(nameBytes),
                                     <<"data param name too long">>)]
        ELSE [buf |-> rs.buf, name |-> nameBytes, err |-> Nil]

\* paramValue[:len(paramValue)-1] is outside the slice when nothing follows
\* the opening quote: the slice expression panics.
parseParamValue(buf) ==
    LET cb == checkByte(buf, qouteByte)
        rs == ReadSlice(cb.buf, qouteByte)
    IN  IF cb.err # Nil THEN [buf |-> cb.buf, value |-> <<>>, err |-> cb.err]
        ELSE IF Len(rs.bytes) = 0
        THEN [buf |-> rs.buf, value |-> <<>>,
              err |-> Panic("slice bounds out of range")]
        ELSE [buf |-> rs.buf,
              value |-> SubSeq(rs.bytes, 1, Len(rs.bytes) - 1), err |-> Nil]

\* The inner loop of parseData: the name="value" pairs of one group.
RECURSIVE parseParams(_, _)

\* The end of an iteration: the byte rb read after a value, params holding
\* the pairs read.
parseParamsNext(rb, params) ==
    IF rb.err # Nil THEN [buf |-> rb.buf, params |-> params, err |-> rb.err]
    ELSE IF rb.c = dataEnd
    THEN [buf |-> rb.buf, params |-> params, err |-> Nil]
    ELSE IF rb.c # spaceByte
    THEN [buf |-> rb.buf, params |-> params,
          err |-> newFormatError(Pos(rb.buf),
                     <<"expected byte ']' or ' ', but got", rb.c>>)]
    ELSE parseParams(rb.buf, params)

\* The iteration after parseParamValue returned pv for the name.
parseParamsValue(name, pv, params) ==
    IF pv.err # Nil THEN [buf |-> pv.buf, params |-> params, err |-> pv.err]
    ELSE parseParamsNext(ReadByte(pv.buf),
                         IF pv.value # nilValue
                         THEN (name :> pv.value) @@ params
                         ELSE params)

\* The iteration after parseParamName returned pn.
parseParamsName(pn, params) ==
    IF pn.err = EOF THEN [buf |-> pn.buf, params |-> params, err |-> Nil]
    ELSE IF pn.err # Nil
    THEN [buf |-> pn.buf, params |-> params, err |-> pn.err]
    ELSE parseParamsValue(pn.name, parseParamValue(pn.buf), params)

parseParams(buf, params) == parseParamsName(parseParamName(buf), params)

\* The outer loop of parseData: one group per iteration.
RECURSIVE parseGroups(_, _)

\* The end of an iteration: the byte rb read after a group, data holding
\* the groups read.
parseGroupsNext(rb, data) ==
    IF rb.err = EOF THEN [buf |-> rb.buf, data |-> data, err |-> Nil]
    ELSE IF rb.c = spaceByte
    THEN [buf |-> UnreadByte(rb.buf).buf, data |-> data,
          err |-> UnreadByte(rb.buf).err]
    ELSE IF rb.c # dataStart
    THEN [buf |-> rb.buf, data |-> data,
          err |-> newFormatError(Pos(rb.buf),
                     <<"expected byte ' ' or ']', but got", rb.c>>)]
    ELSE parseGroups(rb.buf, data)

\* The iteration after the inner loop returned ps for the group dataID.
parseGroupsParams(dataID, ps, data) ==
    IF ps.err # Nil THEN [buf |-> ps.buf, data |-> data, err |-> ps.err]
    ELSE parseGroupsNext(ReadByte(ps.buf), (dataID :> ps.params) @@ data)

\* The iteration after parseSingleValue returned id: the next byte is read
\* and dropped, then the inner loop runs.
parseGroupsID(id, data) ==
    IF id.err # Nil THEN [buf |-> id.buf, data |-> data, err |-> id.err]
    ELSE parseGroupsParams(id.value,
                           parseParams(ReadByte(id.buf).buf, EmptyMap), data)

parseGroups(buf, data) ==
    parseGroupsID(parseSingleValue(buf, "data-ID", FALSE, maxDataIDLength),
                  data)

\* parseData after the loop returned g.
parseDataGroups(g, msg) ==
    IF g.err # Nil THEN [buf |-> g.buf, msg |-> msg, err |-> g.err]
    ELSE [buf |-> g.buf, msg |-> [msg EXCEPT !.Data = g.data], err |-> Nil]

\* parseData after checkByte returned cb.
parseDataStart(cb, msg) ==
    IF cb.err # Nil THEN [buf |-> cb.buf, msg |-> msg, err |-> cb.err]
    ELSE parseDataGroups(parseGroups(cb.buf, EmptyMap), msg)

\* parseData after nextIsNilValue returned n.
parseDataNil(n, msg) ==
    IF n.err # Nil THEN [buf |-> n.buf, msg |-> msg, err |-> n.err]
    ELSE IF n.isNil THEN [buf |-> n.buf, msg |-> msg, err |-> Nil]
    ELSE parseDataStart(checkByte(n.buf, dataStart), msg)

parseData(buf, msg) == parseDataNil(nextIsNilValue(buf), msg)

parseMsg(buf, msg) ==
    LET r == ReadAll(buf)
        messageBytes == TrimSpace(TrimPrefix(TrimSpace(r.bytes), bom))
    IN  [buf |-> r.buf, msg |-> [msg EXCEPT !.Message = messageBytes],
         err |-> Nil]

\* discard that does not move when fewer than n bytes are left.
discardAllOrNothing(n, buf, msg) ==
    IF maxRead(buf) < n THEN [buf |-> buf, msg |-> msg, err |-> EOF]
    ELSE [buf |-> Discard(buf, n).buf, msg |-> msg, err |-> Nil]

discard(n, buf, msg) ==
    LET d == Discard(buf, n)
    IN  [buf |-> d.buf, msg |-> msg,
         err |-> IF d.discarded # n THEN EOF ELSE Nil]

discardByte(c, buf, msg) ==
    LET cb == checkByte(buf, c)
    IN  [buf |-> cb.buf, msg |-> msg, err |-> cb.err]

discardUntil(c, buf, msg) ==
    LET rs == ReadSlice(buf, c)
    IN  [buf |-> rs.buf, msg |-> msg, err |-> rs.err]

discardSpace(buf, msg) ==
    LET cb == checkByte(buf, spaceByte)
    IN  [buf |-> cb.buf, msg |-> msg, err |-> cb.err]

parseNginxMsg(buf, msg) ==
    LET rs == ReadSlice(buf, commaByte)
    IN  IF rs.err # Nil THEN [buf |-> rs.buf, msg |-> msg, err |-> rs.err]
        ELSE [buf |-> rs.buf,
              msg |-> [msg EXCEPT
                         !.Message = SubSeq(rs.bytes, 1, Len(rs.bytes) - 1)],
              err |-> Nil]

\* The loop of parseNginxData: one comma separated segment per iteration.
RECURSIVE parseSegments(_, _)
parseSegments(buf, data) ==
    LET rs == ReadSlice(buf, commaByte)
        bb == TrimSuffix(rs.bytes, <<commaByte>>)
        colons == {i \in 1..Len(bb) : bb[i] = colonByte}
        split == CHOOSE i \in colons : \A j \in colons : i <= j
        qouteSlice == <<qouteByte>>
        key == TrimPrefix(TrimSuffix(TrimSpace(SubSeq(bb, 1, split - 1)),
                                     qouteSlice), qouteSlice)
        value == TrimPrefix(TrimSuffix(
                     TrimSpace(SubSeq(bb, split + 1, Len(bb))),
                     qouteSlice), qouteSlice)
        set == (key :> value) @@ data
    IN  IF colons = {}
        THEN [buf |-> rs.buf, data |-> data,
              err |-> newFormatError(Pos(rs.buf) - 1,
                   <<"Expected to encounter ':', but didn't find one">>)]
        ELSE IF rs.err = EOF THEN [buf |-> rs.buf, data |-> set, err |-> Nil]
        ELSE parseSegments(rs.buf, set)

parseNginxData(buf, msg) ==
    LET r == parseSegments(buf, EmptyMap)
    IN  IF r.err # Nil THEN [buf |-> r.buf, msg |-> msg, err |-> r.err]
        ELSE [buf |-> r.buf,
              msg |-> [msg EXCEPT
                         !.Data = (<<"d", "a", "t", "a">> :> r.data)],
              err |-> Nil]

\* ------------------------------------------------------------------------
\* helpers.go: the steps that only touch the Message.
\* ------------------------------------------------------------------------
calculateFacility(buf, msg) ==
    [buf |-> buf,
     msg |-> [msg EXCEPT !.Facility = CalculateFacility(msg.Priority)],
     err |-> Nil]

calculateSeverity(buf, msg) ==
    [buf |-> buf,
     msg |-> [msg EXCEPT !.Severity = CalculateSeverity(msg.Priority)],
     err |-> Nil]

\* Timestamp.AddDate(years, 0, 0): a February 29 that the new year does not
\* have is normalised to March 1.
AddYears(t, years) ==
    IF t.day > daysIn(t.month, t.year + years)
    THEN [t EXCEPT !.year = @ + years, !.month = @ + 1, !.day = 1]
    ELSE [t EXCEPT !.year = @ + years]

nginxFixTimestamp(buf, msg) ==
    [buf |-> buf,
     msg |-> [msg EXCEPT !.Timestamp = AddYears(@, CurrentYear)],
     err |-> Nil]

nginxFixAppName(buf, msg) ==
    [buf |-> buf,
     msg |-> [msg EXCEPT !.Appname = TrimSuffix(@, <<":">>)],
     err |-> Nil]

\* ------------------------------------------------------------------------
\* formats.go: a format is the sequence of its steps.  A step names its
\* parseFunc and carries the arguments the parseFunc was built with.
\* ------------------------------------------------------------------------
Step(fn, arg) == [fn |-> fn, arg |-> arg]

rfc5424Format ==
    << Step("parsePriority", <<>>),
       Step("calculateFacility", <<>>),
       Step("calculateSeverity", <<>>),
       Step("parseVersion", <<>>),
       Step("discardSpace", <<>>),
       Step("parseTimestamp", <<"RFC3339", "RFC3339Nano">>),
       Step("discardSpace", <<>>),
       Step("parseHostname", <<>>),
       Step("discardSpace", <<>>),
       Step("parseAppname", <<>>),
       Step("discardSpace", <<>>),
       Step("parseProcessID", <<>>),
       Step("discardSpace", <<>>),
       Step("parseMessageID", <<>>),
       Step("discardSpace", <<>>),
       Step("parseData", <<>>),
       Step("optional", [peekLength |-> 2,
                         fns |-> << Step("discardSpace", <<>>),
                                    Step("parseMsg", <<>>) >>]) >>

nginxAccessFormat ==
    << Step("parsePriority", <<>>),
       Step("calculateFacility", <<>>),
       Step("calculateSeverity", <<>>),
       Step("parseTimestamp", <<"Stamp">>),
       Step("nginxFixTimestamp", <<>>),
       Step("discardSpace", <<>>),
       Step("parseHostname", <<>>),
       Step("discardSpace", <<>>),
       Step("parseAppname", <<>>),
       Step("nginxFixAppName", <<>>),
       Step("discardSpace", <<>>),
       Step("parseData", <<>>) >>

nginxErrorFormat ==
    << Step("parsePriority", <<>>),
       Step("calculateFacility", <<>>),
       Step("calculateSeverity", <<>>),
       Step("parseTimestamp", <<"Stamp">>),
       Step("nginxFixTimestamp", <<>>),
       Step("discardSpace", <<>>),
       Step("parseHostname", <<>>),
       Step("discardSpace", <<>>),
       Step("parseAppname", <<>>),
       Step("nginxFixAppName", <<>>),
       Step("discardSpace", <<>>),
       Step("discard", 19),
       Step("discardSpace", <<>>),
       Step("discardByte", "["),
       Step("discardUntil", "]"),
       Step("discardSpace", <<>>),
       Step("parseNginxMsg", <<>>),
       Step("discardSpace", <<>>),
       Step("parseNginxData", <<>>) >>

\* The exported formats, by name.
Formats ==
    [RFC5424 |-> rfc5424Format, NginxAccess |-> nginxAccessFormat,
     NginxError |-> nginxErrorFormat]

FormatNames == {"RFC5424", "NginxAccess", "NginxError"}

\* parseFunc(buf, &msg): the call of one step.
RECURSIVE ApplyStep(_, _, _)
\* for _, fn := range fns: the steps from the i-th on, up to the first error.
RECURSIVE runFns(_, _, _, _)

\* optional that takes the failure of a wrapped step as nothing there.
optionalSkipsFailures(peekLength, fns, buf, msg) ==
    IF Peek(buf, peekLength).err = EOF \/ runFns(fns, 1, buf, msg).err # Nil
    THEN [buf |-> buf, msg |-> msg, err |-> Nil]
    ELSE runFns(fns, 1, buf, msg)

optional(peekLength, fns, buf, msg) ==
    IF Peek(buf, peekLength).err = EOF
    THEN [buf |-> buf, msg |-> msg, err |-> Nil]
    ELSE runFns(fns, 1, buf, msg)

ApplyStep(step, buf, msg) ==
    CASE step.fn = "parsePriority" -> parsePriority(buf, msg)
      [] step.fn = "calculateFacility" -> calculateFacility(buf, msg)
      [] step.fn = "calculateSeverity" -> calculateSeverity(buf, msg)
      [] step.fn = "parseVersion" -> parseVersion(buf, msg)
      [] step.fn = "discardSpace" -> discardSpace(buf, msg)
      [] step.fn = "parseTimestamp" -> parseTimestamp(step.arg, buf, msg)
      [] step.fn = "parseHostname" -> parseHostname(buf, msg)
      [] step.fn = "parseAppname" -> parseAppname(buf, msg)
      [] step.fn = "parseProcessID" -> parseProcessID(buf, msg)
      [] step.fn = "parseMessageID" -> parseMessageID(buf, msg)
      [] step.fn = "parseData" -> parseData(buf, msg)
      [] step.fn = "parseMsg" -> parseMsg(buf, msg)
      [] step.fn = "optional" ->
            optional(step.arg.peekLength, step.arg.fns, buf, msg)
      [] step.fn = "nginxFixTimestamp" -> nginxFixTimestamp(buf, msg)
      [] step.fn = "nginxFixAppName" -> nginxFixAppName(buf, msg)
      [] step.fn = "discard" -> discard(step.arg, buf, msg)
      [] step.fn = "discardByte" -> discardByte(step.arg, buf, msg)
      [] step.fn = "discardUntil" -> discardUntil(step.arg, buf, msg)
      [] step.fn = "parseNginxMsg" -> parseNginxMsg(buf, msg)
      [] step.fn = "parseNginxData" -> parseNginxData(buf, msg)

runFns(fns, i, buf, msg) ==
    IF i > Len(fns) THEN [buf |-> buf, msg |-> msg, err |-> Nil]
    ELSE LET r == ApplyStep(fns[i], buf, msg)
         IN  IF r.err # Nil THEN r ELSE runFns(fns, i + 1, r.buf, r.msg)

\* A driver that hands the error of the step on as it is.
returnedErrorUntranslated(err) == err

\* The error ParseMessage returns for the error of a step (syslog.go).
returnedError(err) == IF err = EOF THEN ErrUnexpectedEOF ELSE err

\* The *Message ParseMessage returns with an error.
NilMessage == [nil |-> TRUE]

\* ParseMessage as a function of its arguments: the returned pair, and the
\* cursor position it ended with.
ParseMessage(b, format) ==
    LET r == runFns(format, 1, newBuffer(b), Message)
    IN  IF r.err # Nil
        THEN [msg |-> NilMessage, err |-> returnedError(r.err),
              position |-> r.buf.position]
        ELSE [msg |-> r.msg, err |-> Nil, position |-> r.buf.position]

\* ------------------------------------------------------------------------
\* Message.Bytes: the RFC5424 text of a Message.
\* ------------------------------------------------------------------------
Ascii ==
    <<
       " ", "!", "\"", "#", "$", "%", "&", "'", "(", ")", "*", "+",
       ",", "-", ".", "/", "0", "1", "2", "3", "4", "5", "6", "7",
       "8", "9", ":", ";", "<", "=", ">", "?", "@", "A", "B", "C",
       "D", "E", "F", "G", "H", "I", "J", "K", "L", "M", "N", "O",
       "P", "Q", "R", "S", "T", "U", "V", "W", "X", "Y", "Z", "[",
       "\\", "]", "^", "_", "GRAVE", "a", "b", "c", "d", "e", "f", "g",
       "h", "i", "j", "k", "l", "m", "n", "o", "p", "q", "r", "s",
       "t", "u", "v", "w", "x", "y", "z", "{", "|", "}", "~" >>

\* The value of a byte, for sort.Strings.
Code(c) ==
    CASE c = "\t" -> 9
      [] c = "\n" -> 10
      [] c = "\r" -> 13
      [] c = "EF" -> 239
      [] c = "BB" -> 187
      [] c = "BF" -> 191
      [] OTHER -> 31 + CHOOSE i \in 1..Len(Ascii) : Ascii[i] = c

\* a < b for Go strings.
RECURSIVE Less(_, _)
Less(a, b) ==
    IF Len(b) = 0 THEN FALSE
    ELSE IF Len(a) = 0 THEN TRUE
    ELSE IF a[1] # b[1] THEN Code(a[1]) < Code(b[1])
    ELSE Less(Tail(a), Tail(b))

\* The keys of a map, sorted (getSortedMapKeys and getSortedMapMapKeys).
RECURSIVE sortedKeys(_)
sortedKeys(keys) ==
    IF keys = {} THEN <<>>
    ELSE LET first == CHOOSE k \in keys : \A o \in keys \ {k} : Less(k, o)
         IN  <<first>> \o sortedKeys(keys \ {first})

getSortedMapKeys(m) == sortedKeys(DOMAIN m)

getSortedMapMapKeys(m) == sortedKeys(DOMAIN m)

addTimestamp(b, t) ==
    b \o (IF IsZero(t) THEN <<nilValueByte>> ELSE AppendFormat(t))
      \o <<spaceByte>>

addValue(b, value) ==
    b \o (IF value = <<>> THEN <<nilValueByte>> ELSE TrimSpace(value))
      \o <<spaceByte>>

\* The name="value" pairs of one group, for the names from the i-th on.
RECURSIVE addParams(_, _, _)
addParams(names, i, params) ==
    IF i > Len(names) THEN <<>>
    ELSE <<spaceByte>> \o names[i] \o <<equalByte>>
         \o AppendQuote(params[names[i]]) \o addParams(names, i + 1, params)

\* The groups of the data, for the ids from the i-th on.
RECURSIVE addGroups(_, _, _)
addGroups(ids, i, data) ==
    IF i > Len(ids) THEN <<>>
    ELSE <<dataStart>> \o ids[i]
         \o addParams(getSortedMapKeys(data[ids[i]]), 1, data[ids[i]])
         \o <<dataEnd>> \o addGroups(ids, i + 1, data)

addData(b, data) ==
    IF DOMAIN data = {} THEN b \o <<nilValueByte>>
    ELSE b \o addGroups(getSortedMapMapKeys(data), 1, data)

Bytes(msg) ==
    LET pri == <<priorityStart>> \o AppendUint(msg.Priority) \o <<priorityEnd>>
        ver == (IF msg.Version # 0 THEN AppendUint(msg.Version) ELSE <<>>)
               \o <<spaceByte>>
        fields == addValue(addValue(addValue(addValue(
                      addTimestamp(pri \o ver, msg.Timestamp),
                      msg.Hostname), msg.Appname), msg.ProcessID),
                      msg.MessageID)
    IN  addData(fields, msg.Data)
        \o (IF msg.Message # <<>> THEN <<spaceByte>> \o msg.Message ELSE <<>>)

\* ------------------------------------------------------------------------
\* Inputs: the lines of the tests and benchmarks, cut at every length, and
\* every short byte sequence over a small alphabet.
\* ------------------------------------------------------------------------
minimumInputRFC5424 ==
    << "<", "0", ">", " ", "-", " ", "-", " ", "-", " ", "-", " ", "-", " ",
       "-" >>

regularInputRFC5424 ==
    << "<", "1", "9", "1", ">", "1", "0", " ", "2", "0", "1", "5", "-", "0",
       "9", "-", "3", "0", "T", "2", "3", ":", "1", "0", ":", "1", "1", "+",
       "0", "2", ":", "0", "0", " ", "h", "o", "s", "t", "n", "a", "m", "e",
       " ", "a", "p", "p", "n", "a", "m", "e", " ", "p", "r", "o", "c", "i",
       "d", " ", "m", "s", "g", "i", "d", " ", "[", "d", "a", "t", "a", " ",
       "n", "a", "m", "e", "=", "\"", "v", "a", "l", "u", "e", "\"", "]",
       " ", "m", "e", "s", "s", "a", "g", "e" >>

emptyDataInputRFC5424 ==
    << "<", "1", "9", "1", ">", "1", "0", " ", "2", "0", "1", "5", "-", "0",
       "9", "-", "3", "0", "T", "2", "3", ":", "1", "0", ":", "1", "1", "+",
       "0", "2", ":", "0", "0", " ", "h", "o", "s", "t", "n", "a", "m", "e",
       " ", "a", "p", "p", "n", "a", "m", "e", " ", "p", "r", "o", "c", "i",
       "d", " ", "m", "s", "g", "i", "d", " ", "[", "d", "a", "t", "a", "]" >>

utcInputRFC5424 ==
    << "<", "9", ">", "1", " ", "2", "0", "0", "0", "-", "0", "1", "-", "0",
       "1", "T", "0", "1", ":", "0", "1", ":", "0", "1", "+", "0", "0", ":",
       "0", "0", " ", "h", " ", "a", " ", "p", " ", "m", " ", "[", "d", " ",
       "n", "=", "\"", "v", "\"", "]", " ", "m" >>

nanoInputRFC5424 ==
    << "<", "9", ">", "1", " ", "2", "0", "1", "5", "-", "1", "0", "-", "1",
       "8", "T", "1", "7", ":", "0", "5", ":", "5", "5", ".", "9", "5", "6",
       "9", "3", "4", "9", "1", "9", "+", "0", "2", ":", "0", "0", " ", "h",
       " ", "a", " ", "p", " ", "m", " ", "[", "d", " ", "n", "=", "\"", "-",
       "\"", "]", "[", "e", " ", "k", "=", "\"", "v", "\"", " ", "l", "=",
       "\"", "w", "\"", "]" >>

\* A line whose hostname holds a closing bracket.
bracketInputRFC5424 ==
    << "<", "0", ">", " ", "-", " ", "a", "]", "b", " ", "-", " ", "-", " ",
       "-", " ", "-" >>

minimumInputNginxAccess ==
    << "<", "1", "9", "0", ">", "J", "a", "n", " ", " ", "1", " ", "0", "1",
       ":", "0", "1", ":", "0", "1", " ", "h", " ", "a", ":", " ", "[", "r",
       "e", "q", "u", "e", "s", "t", "]" >>

regularInputNginxAccess ==
    << "<", "1", "9", "0", ">", "O", "c", "t", " ", " ", "5", " ", "1", "2",
       ":", "0", "5", ":", "1", "5", " ", "h", "o", "s", "t", "n", "a", "m",
       "e", " ", "n", "g", "i", "n", "x", ":", " ", "[", "r", "e", "q", "u",
       "e", "s", "t", " ", "s", "t", "a", "t", "u", "s", "=", "\"", "2", "0",
       "0", "\"", " ", "r", "e", "m", "o", "t", "e", "_", "u", "s", "e", "r",
       "=", "\"", "-", "\"", "]" >>

minimumInputNginxError ==
    << "<", "1", "8", "4", ">", "J", "a", "n", " ", " ", "1", " ", "0", "1",
       ":", "0", "1", ":", "0", "1", " ", "h", " ", "a", ":", " ", "0", "0",
       "0", "1", "/", "0", "1", "/", "0", "1", " ", "0", "1", ":", "0", "1",
       ":", "0", "1", " ", "[", "E", "m", "e", "r", "g", "e", "n", "c", "y",
       "]", " ", "m", ",", " ", "c", ":", " ", "c", ",", " ", "s", ":", " ",
       "s", ",", " ", "r", ":", " ", "r", ",", " ", "h", ":", " ", "h" >>

regularInputNginxError ==
    << "<", "1", "8", "7", ">", "O", "c", "t", " ", "1", "3", " ", "1", "2",
       ":", "3", "1", ":", "4", "0", " ", "h", "o", "s", "t", "n", "a", "m",
       "e", " ", "n", "g", "i", "n", "x", ":", " ", "2", "0", "1", "5", "/",
       "1", "0", "/", "1", "3", " ", "0", "1", ":", "3", "1", ":", "4", "0",
       " ", "[", "e", "r", "r", "o", "r", "]", " ", "o", "p", "e", "n", "(",
       ")", " ", "f", "a", "i", "l", "e", "d", ",", " ", "c", "l", "i", "e",
       "n", "t", ":", " ", "1", "9", "2", ".", "1", "6", "8", ".", "1", ".",
       "2", "5", "5", ",", " ", "r", "e", "q", "u", "e", "s", "t", ":", " ",
       "\"", "G", "E", "T", " ", "/", "t", "e", "s", "t", " ", "H", "T", "T",
       "P", "/", "1", ".", "1", "\"" >>

\* generateString of syslog_test.go: the prefix followed by the alphabet,
\* repeated, cut to the length.
GenerateString(prefix, length) ==
    [i \in 1..length |->
        IF i <= Len(prefix) THEN prefix[i]
        ELSE Ascii[66 + ((i - Len(prefix) - 1) % 26)]]

Line(bytes, format) == [bytes |-> bytes, format |-> format]

Lines ==
    { Line(minimumInputRFC5424, "RFC5424"),
      Line(regularInputRFC5424, "RFC5424"),
      Line(emptyDataInputRFC5424, "RFC5424"),
      Line(utcInputRFC5424, "RFC5424"),
      Line(nanoInputRFC5424, "RFC5424"),
      Line(bracketInputRFC5424, "RFC5424"),
      Line(minimumInputNginxAccess, "NginxAccess"),
      Line(regularInputNginxAccess, "NginxAccess"),
      Line(minimumInputNginxError, "NginxError"),
      Line(regularInputNginxError, "NginxError") }

IsPrefix(b, l) == Len(b) <= Len(l) /\ SubSeq(l, 1, Len(b)) = b

Truncations ==
    UNION {{Line(SubSeq(l.bytes, 1, n), l.format) : n \in 0..Len(l.bytes)} :
              l \in Lines}

\* The longest short input.
MaxShort == 2

ShortAlphabet == {"<", ">", "1", "-", " ", "[", "a"}

ShortInputs ==
    {Line(b, f) : b \in UNION {[1..n -> ShortAlphabet] : n \in 0..MaxShort},
                  f \in FormatNames}

Inputs == Truncations \cup ShortInputs

\* ------------------------------------------------------------------------
\* The invocations of ParseMessage.  Each one owns a cursor and a Message;
\* the formats are shared by all of them.  An invocation takes one step of
\* its format at a time.
\* ------------------------------------------------------------------------
\* The number of invocations.
MaxProcs == 2

Procs == 1..MaxProcs

VARIABLES
    formats,    \* the package's formats, by name
    format,     \* format[p]: the name of the format p parses with
    buf,        \* buf[p]: the cursor of p
    msg,        \* msg[p]: the Message p fills
    pc,         \* pc[p]: the index of the next step of p
    state,      \* state[p]: Idle, Running, Complete, Failed or Panicked
    ret,        \* ret[p]: the *Message p returned
    err,        \* err[p]: the error p returned
    steps,      \* steps[p]: the steps p has called, with their errors
    calc        \* the Priority under calculation and what was calculated

vars == <<formats, format, buf, msg, pc, state, ret, err, steps, calc>>

\* The states ParseMessage has left.
Returned == {"Complete", "Failed", "Panicked"}

\* No Priority is under calculation.
NoCalc == [priority |-> 0, at |-> "none", facility |-> 0, severity |-> 0,
           again |-> 0]

\* The invocations in active call ParseMessage(in[p].bytes, in[p].format),
\* the formats being those of table.
Calls(active, in, table) ==
    /\ formats = table
    /\ format = [p \in Procs |-> IF p \in active THEN in[p].format
                                  ELSE "RFC5424"]
    /\ buf = [p \in Procs |-> IF p \in active THEN newBuffer(in[p].bytes)
                               ELSE newBuffer(<<>>)]
    /\ msg = [p \in Procs |-> Message]
    /\ pc = [p \in Procs |-> 1]
    /\ state = [p \in Procs |-> IF p \in active THEN "Running" ELSE "Idle"]
    /\ ret = [p \in Procs |-> NilMessage]
    /\ err = [p \in Procs |-> Nil]
    /\ steps = [p \in Procs |-> <<>>]

\* One call of ParseMessage on one of the inputs.
Init ==
    /\ \E in \in Inputs : Calls({1}, [p \in Procs |-> in], Formats)
    /\ calc = NoCalc

\* A loop that goes on after a step returned an error.
stateAfterIgnoringError(e) == "Running"

\* The state of the invocation after a step returned err.
stateAfter(e) ==
    IF e = Nil THEN "Running"
    ELSE IF e.kind = "panic" THEN "Panicked"
    ELSE "Failed"

\* One cursor for all the invocations.
cursorShared(p) == buf[1]

\* The cursor the steps of p work on.
cursor(p) == buf[p]

\* The step fn of p returned r: the cursor and the Message are as the step
\* left them, and an error ends the loop.
Stepped(p, fn, r) ==
    /\ buf' = [buf EXCEPT ![p] = r.buf]
    /\ msg' = [msg EXCEPT ![p] = r.msg]
    /\ steps' = [steps EXCEPT
                   ![p] = Append(@, [pc |-> pc[p], fn |-> fn,
                                     err |-> r.err.kind])]
    /\ state' = [state EXCEPT ![p] = stateAfter(r.err)]
    /\ pc' = [pc EXCEPT ![p] = IF r.err = Nil THEN @ + 1 ELSE @]
    /\ err' = [err EXCEPT ![p] = returnedError(r.err)]

\* The body of the loop of ParseMessage: p calls the next step.
ParseStep(p) ==
    /\ state[p] = "Running"
    /\ pc[p] <= Len(formats[format[p]])
    /\ Stepped(p, formats[format[p]][pc[p]].fn,
               ApplyStep(formats[format[p]][pc[p]], cursor(p), msg[p]))
    /\ UNCHANGED <<formats, format, ret, calc>>

\* return &msg, nil: p has called every step.
ParseReturn(p) ==
    /\ state[p] = "Running"
    /\ pc[p] > Len(formats[format[p]])
    /\ state' = [state EXCEPT ![p] = "Complete"]
    /\ ret' = [ret EXCEPT ![p] = msg[p]]
    /\ UNCHANGED <<formats, format, buf, msg, pc, err, steps, calc>>

Next == \E p \in Procs : ParseStep(p) \/ ParseReturn(p)

Spec == Init /\ [][Next]_vars

\* ------------------------------------------------------------------------
\* The priority calculations on their own, as TestPriority makes them.
\* ------------------------------------------------------------------------
\* Priority is a uint8.
Priorities == 0..255

\* No invocation of ParseMessage runs.
InitPriority ==
    /\ Calls({}, [p \in Procs |-> Line(<<>>, "RFC5424")], Formats)
    /\ \E n \in Priorities : calc = [NoCalc EXCEPT !.priority = n]

\* test.Priority.CalculateFacility()
TestCalculateFacility ==
    /\ calc.at = "none"
    /\ calc' = [calc EXCEPT !.at = "facility",
                            !.facility = CalculateFacility(calc.priority)]
    /\ UNCHANGED <<formats, format, buf, msg, pc, state, ret, err, steps>>

\* test.Priority.CalculateSeverity()
TestCalculateSeverity ==
    /\ calc.at = "facility"
    /\ calc' = [calc EXCEPT !.at = "severity",
                            !.severity = CalculateSeverity(calc.priority)]
    /\ UNCHANGED <<formats, format, buf, msg, pc, state, ret, err, steps>>

\* CalculatePriority of the facility and the severity calculated.
TestCalculatePriority ==
    /\ calc.at = "severity"
    /\ calc' = [calc EXCEPT !.at = "priority",
                            !.again = CalculatePriority(calc.facility,
                                                        calc.severity)]
    /\ UNCHANGED <<formats, format, buf, msg, pc, state, ret, err, steps>>

NextPriority ==
    \/ TestCalculateFacility
    \/ TestCalculateSeverity
    \/ TestCalculatePriority

SpecPriority == InitPriority /\ [][NextPriority]_vars

\* ------------------------------------------------------------------------
\* The lines "<N> - - - - - -" of every valid priority N.
\* ------------------------------------------------------------------------
nilFields == SubSeq(minimumInputRFC5424, 3, Len(minimumInputRFC5424))

NilLines ==
    {Line(<<priorityStart>> \o AppendUint(n) \o nilFields, "RFC5424") :
        n \in 0..maxPriority}

InitNil ==
    /\ \E in \in NilLines : Calls({1}, [p \in Procs |-> in], Formats)
    /\ calc = NoCalc

SpecNil == InitNil /\ [][Next]_vars

\* ------------------------------------------------------------------------
\* Concurrent invocations: every one of them runs, each on its own input,
\* and their steps interleave.
\* ------------------------------------------------------------------------
ConcInputs ==
    { Line(minimumInputRFC5424, "RFC5424"),
      Line(SubSeq(regularInputRFC5424, 1, 3), "RFC5424"),
      Line(minimumInputNginxAccess, "NginxAccess") }

InitConc ==
    /\ \E in \in [Procs -> ConcInputs] : Calls(Procs, in, Formats)
    /\ calc = NoCalc

SpecConc == InitConc /\ [][Next]_vars

\* ------------------------------------------------------------------------
\* The bounded fields on their own: formats of one step, given values of a
\* length around the bound of the field, as the tests of parsers_test.go
\* call the field parsers.
\* ------------------------------------------------------------------------
FieldFormats ==
    [ parseHostname  |-> << Step("parseHostname", <<>>) >>,
      parseAppname   |-> << Step("parseAppname", <<>>) >>,
      parseProcessID |-> << Step("parseProcessID", <<>>) >>,
      parseMessageID |-> << Step("parseMessageID", <<>>) >>,
      parseDataID    |-> << Step("parseData", <<>>) >>,
      parseParamName |-> << Step("parseData", <<>>) >> ]

FieldNames == DOMAIN FieldFormats

pair == <<"n", equalByte, qouteByte, "v", qouteByte, dataEnd>>

\* Of each field: its name in the errors, its bound, the bytes before the
\* value and the bytes that may follow it.
Fields ==
    [ parseHostname  |->
        [name |-> "hostname", max |-> maxHostnameLength, lead |-> <<>>,
         ends |-> {<<>>, <<spaceByte>>, <<spaceByte, "x">>}],
      parseAppname   |->
        [name |-> "appname", max |-> maxAppNameLength, lead |-> <<>>,
         ends |-> {<<>>, <<spaceByte>>, <<spaceByte, "x">>}],
      parseProcessID |->
        [name |-> "processID", max |-> maxProcessIDLength, lead |-> <<>>,
         ends |-> {<<>>, <<spaceByte>>, <<spaceByte, "x">>}],
      parseMessageID |->
        [name |-> "messageID", max |-> maxMessageIDLength, lead |-> <<>>,
         ends |-> {<<>>, <<spaceByte>>, <<spaceByte, "x">>}],
      parseDataID    |->
        [name |-> "data-ID", max |-> maxDataIDLength, lead |-> <<dataStart>>,
         ends |-> {<<>>, <<spaceByte>> \o pair, <<dataEnd>>,
                   <<dataEnd, spaceByte, "x">>}],
      parseParamName |->
        [name |-> "data param name", max |-> maxDataParamLength,
         lead |-> <<dataStart, "d", spaceByte>>,
         ends |-> {SubSeq(pair, 2, Len(pair)),
                   SubSeq(pair, 2, Len(pair)) \o <<spaceByte, "x">>}] ]

\* How far from the bound the lengths of the values go.
FieldMargin == 2

FieldInputs ==
    UNION {
      { Line(Fields[f].lead \o GenerateString(<<"v">>, n) \o e, f) :
          n \in (Fields[f].max - FieldMargin)..(Fields[f].max + FieldMargin),
          e \in Fields[f].ends } :
      f \in FieldNames }

InitField ==
    /\ \E in \in FieldInputs : Calls({1}, [p \in Procs |-> in], FieldFormats)
    /\ calc = NoCalc

SpecField == InitField /\ [][Next]_vars

\* ------------------------------------------------------------------------
\* The parse functions called one by one on a fresh cursor and an empty
\* Message, as testParseFunc of parsers_test.go calls them.
\* ------------------------------------------------------------------------
FuncFormats ==
    [ parsePriority |-> << Step("parsePriority", <<>>) >>,
      parseVersion  |-> << Step("parseVersion", <<>>) >>,
      parseTimestamp |-> << Step("discardSpace", <<>>),
                            Step("parseTimestamp",
                                 <<"RFC3339", "RFC3339Nano">>) >>,
      parseHostname  |-> << Step("parseHostname", <<>>),
                            Step("discardSpace", <<>>) >>,
      parseAppname   |-> << Step("parseAppname", <<>>),
                            Step("discardSpace", <<>>) >>,
      parseProcessID |-> << Step("parseProcessID", <<>>),
                            Step("discardSpace", <<>>) >>,
      parseMessageID |-> << Step("parseMessageID", <<>>),
                            Step("discardSpace", <<>>) >>,
      parseData      |-> << Step("parseData", <<>>) >>,
      discardByte    |-> << Step("discardByte", "a") >>,
      discardSpace   |-> << Step("discardSpace", <<>>) >>,
      parseNginxMsg  |-> << Step("parseNginxMsg", <<>>) >>,
      parseNginxData |-> << Step("parseNginxData", <<>>) >>,
      optional       |->
        << Step("optional", [peekLength |-> 2,
                             fns |-> << Step("discardSpace", <<>>),
                                        Step("parseMsg", <<>>) >>]) >>,
      optionalBytes  |->
        << Step("optional", [peekLength |-> 2,
                             fns |-> << Step("discardByte", "a"),
                                        Step("discardSpace", <<>>) >>]) >> ]

\* The longest content of a priority: two more than maxPriorityLength.
MaxPriorityContent == 5

PriorityAlphabet == {"1", "9", "a", "-", priorityEnd}

PriorityInputs ==
    { Line(<<priorityStart>> \o c, "parsePriority") :
        c \in UNION {[1..n -> PriorityAlphabet] : n \in 0..MaxPriorityContent} }

\* The longest input of parseVersion: one more than maxVersionLength.
MaxVersionInput == 3

VersionAlphabet == {"0", "1", "9", "a", spaceByte}

VersionInputs ==
    { Line(b, "parseVersion") :
        b \in UNION {[1..n -> VersionAlphabet] : n \in 0..MaxVersionInput} }

\* The timestamps of the inputs of syslog_test.go, each followed by a
\* space and a hostname.
TimestampSamples ==
    { SubSeq(regularInputRFC5424, 9, 33) \o <<spaceByte, "h">>,
      SubSeq(utcInputRFC5424, 6, 30) \o <<spaceByte, "h">>,
      SubSeq(nanoInputRFC5424, 6, 40) \o <<spaceByte, "h">> }

\* What parseTimestamp is called on, after a space: the samples cut short,
\* the samples with one byte replaced, and the nil marker.
TimestampInputs ==
    { Line(<<spaceByte>> \o b, "parseTimestamp") :
        b \in UNION {{SubSeq(t, 1, n) : n \in 0..Len(t)} : t \in TimestampSamples}
              \cup UNION {{[t EXCEPT ![i] = "a"] : i \in 1..(Len(t) - 2)} :
                            t \in TimestampSamples}
              \cup { <<nilValueByte>>, <<nilValueByte, spaceByte, "h">>,
                     <<nilValueByte, "h">>, <<"a">>, <<"a", "b", "c">> } }

\* The functions that parse one value up to a space, and the field each
\* one sets.
ValueFuncs == {"parseHostname", "parseAppname", "parseProcessID",
               "parseMessageID"}

valueField(fn, m) ==
    CASE fn = "parseHostname" -> m.Hostname
      [] fn = "parseAppname" -> m.Appname
      [] fn = "parseProcessID" -> m.ProcessID
      [] fn = "parseMessageID" -> m.MessageID

\* The longest input of a function that parses one value.
MaxValueInput == 4

ValueAlphabet == {"h", nilValueByte, spaceByte}

ValueInputs ==
    { Line(b, fn) :
        b \in UNION {[1..n -> ValueAlphabet] : n \in 0..MaxValueInput},
        fn \in ValueFuncs }

\* The most name="value" pairs in the first group of the structured data.
MaxPairs == 2

DataPairs ==
    {[name |-> n, value |-> v] :
        n \in {<<"n">>, <<"k">>}, v \in {<<"v">>, <<"w">>, nilValue}}

DataGroups(id, max) ==
    {[id |-> id, pairs |-> ps] :
        ps \in UNION {[1..k -> DataPairs] : k \in 0..max}}

\* Structured data of one group, or of two with at most one pair in the
\* second.
DataSections ==
    {<<g>> : g \in DataGroups(<<"d">>, MaxPairs)}
    \cup {<<g, h>> : g \in DataGroups(<<"d">>, MaxPairs),
                     h \in DataGroups(<<"e">>, 1)}

\* The bytes of a group, [id name="value" ...], and of a section.
RECURSIVE renderPairs(_)
renderPairs(pairs) ==
    IF pairs = <<>> THEN <<>>
    ELSE <<spaceByte>> \o pairs[1].name \o <<equalByte, qouteByte>>
         \o pairs[1].value \o <<qouteByte>> \o renderPairs(Tail(pairs))

renderGroup(g) == <<dataStart>> \o g.id \o renderPairs(g.pairs) \o <<dataEnd>>

RECURSIVE renderSection(_)
renderSection(groups) ==
    IF groups = <<>> THEN <<>>
    ELSE renderGroup(groups[1]) \o renderSection(Tail(groups))

\* What parseData is called on: the sections, whole and cut short, with
\* and without a message after them, and the nil marker.
DataInputs ==
    UNION {{Line(SubSeq(renderSection(d), 1, n), "parseData") :
              n \in 0..Len(renderSection(d))} : d \in DataSections}
    \cup {Line(renderSection(d) \o <<spaceByte, "m">>, "parseData") :
              d \in DataSections}
    \cup {Line(nilValue, "parseData"),
          Line(nilValue \o <<spaceByte, "m">>, "parseData")}

\* What discardByte('a') and discardSpace are called on.
MaxDiscardInput == 3

DiscardInputs ==
    { Line(b, fn) :
        b \in UNION {[1..n -> {"a", "b", spaceByte}] : n \in 0..MaxDiscardInput},
        fn \in {"discardByte", "discardSpace"} }

\* What optional is called on: with the steps of rfc5424Format, and with
\* two steps that can both fail.
OptionalInputs ==
    { Line(b, fn) :
        b \in UNION {[1..n -> {"a", "b", spaceByte}] : n \in 0..MaxDiscardInput},
        fn \in {"optional", "optionalBytes"} }

\* The longest generated input of parseNginxMsg and parseNginxData.
MaxNginxInput == 4

NginxMsgInputs ==
    { Line(b, "parseNginxMsg") :
        b \in UNION {[1..n -> {"m", spaceByte, commaByte}] :
                        n \in 0..MaxNginxInput} }

\* The quoted input of TestParseNginxData: "a:b": "c,b".
quotedNginxData == <<qouteByte, "a", colonByte, "b", qouteByte, colonByte, spaceByte, qouteByte, "c", commaByte, "b", qouteByte>>

\* Inputs of TestParseNginxData.
NginxDataTests ==
    { <<"a", colonByte>>,
      <<"a", colonByte, spaceByte, "a">>,
      <<"a", spaceByte, colonByte, spaceByte, "a", commaByte, spaceByte, "b", spaceByte, colonByte, spaceByte, "b">>,
      <<qouteByte, "a", qouteByte, colonByte, spaceByte, "a", commaByte, spaceByte, "a", "b", "c", colonByte, spaceByte, qouteByte, "a", spaceByte, "b", spaceByte, "c", qouteByte>>,
      <<qouteByte, "a", colonByte, "b", qouteByte, colonByte, spaceByte, qouteByte, "c", commaByte, "b", qouteByte>>,
      <<"a", colonByte, spaceByte, "a", commaByte, spaceByte, "b">> }

NginxDataInputs ==
    { Line(b, "parseNginxData") :
        b \in NginxDataTests
              \cup UNION {[1..n -> {"a", spaceByte, commaByte, colonByte}] :
                            n \in 0..MaxNginxInput} }

FuncInputs ==
    PriorityInputs \cup VersionInputs \cup TimestampInputs \cup ValueInputs
    \cup DataInputs \cup DiscardInputs \cup OptionalInputs
    \cup NginxMsgInputs \cup NginxDataInputs

InitFunc ==
    /\ \E in \in FuncInputs : Calls({1}, [p \in Procs |-> in], FuncFormats)
    /\ calc = NoCalc

SpecFunc == InitFunc /\ [][Next]_vars

\* ------------------------------------------------------------------------
\* The cursor on its own: any sequence of calls of its methods, as the
\* tests of buffer_test.go make them.  steps[1] holds the last two calls:
\* the position they were made at, the method, its argument, what it
\* returned and its error.
\* ------------------------------------------------------------------------
\* The longest input of a cursor.
MaxBufLen == 3

BufAlphabet == {"a", "b", spaceByte}

BufInputs == UNION {[1..n -> BufAlphabet] : n \in 0..MaxBufLen}

\* The lengths asked of Peek and Discard: up to one more than there is.
BufLengths == 0..(MaxBufLen + 1)

InitBuffer ==
    /\ \E b \in BufInputs :
          Calls({1}, [p \in Procs |-> Line(b, "RFC5424")], Formats)
    /\ calc = NoCalc

lastTwo(calls) ==
    IF Len(calls) > 2 THEN SubSeq(calls, Len(calls) - 1, Len(calls))
    ELSE calls

\* The method fn was called with arg on the cursor: it left the cursor as
\* after and returned out and the error e.  A panic ends the calls.
Called(fn, arg, after, out, e) ==
    /\ state[1] = "Running"
    /\ buf' = [buf EXCEPT ![1] = after]
    /\ steps' = [steps EXCEPT
                   ![1] = lastTwo(Append(@, [pc |-> buf[1].position,
                                             fn |-> fn, arg |-> arg,
                                             out |-> out, err |-> e.kind]))]
    /\ state' = [state EXCEPT
                   ![1] = IF e.kind = "panic" THEN "Panicked" ELSE "Running"]
    /\ UNCHANGED <<formats, format, msg, pc, ret, err, calc>>

CallPeek ==
    \E n \in BufLengths :
        Called("Peek", n, buf[1], Peek(buf[1], n).bytes, Peek(buf[1], n).err)

CallDiscard ==
    \E n \in BufLengths :
        Called("Discard", n, Discard(buf[1], n).buf,
               Discard(buf[1], n).discarded, Nil)

CallReadByte ==
    Called("ReadByte", <<>>, ReadByte(buf[1]).buf, ReadByte(buf[1]).c,
           ReadByte(buf[1]).err)

CallUnreadByte ==
    Called("UnreadByte", <<>>, UnreadByte(buf[1]).buf, <<>>,
           UnreadByte(buf[1]).err)

CallReadSlice ==
    \E c \in BufAlphabet :
        Called("ReadSlice", c, ReadSlice(buf[1], c).buf,
               ReadSlice(buf[1], c).bytes, ReadSlice(buf[1], c).err)

CallReadAll ==
    Called("ReadAll", <<>>, ReadAll(buf[1]).buf, ReadAll(buf[1]).bytes, Nil)

NextBuffer ==
    \/ CallPeek
    \/ CallDiscard
    \/ CallReadByte
    \/ CallUnreadByte
    \/ CallReadSlice
    \/ CallReadAll

SpecBuffer == InitBuffer /\ [][NextBuffer]_vars

\* ------------------------------------------------------------------------
\* ParseMessage with the RFC5424 format on lines that end with structured
\* data and a message: the head of the minimum input, a section, and a
\* space and text after it.
\* ------------------------------------------------------------------------
dataLineHead == SubSeq(minimumInputRFC5424, 1, Len(minimumInputRFC5424) - 1)

dataLineTexts ==
    { <<spaceByte, "m">>, <<spaceByte, "t", spaceByte, "m", spaceByte>> }

DataLines ==
    { Line(dataLineHead \o renderSection(d) \o t, "RFC5424") :
        d \in DataSections, t \in dataLineTexts }

InitData ==
    /\ \E in \in DataLines : Calls({1}, [p \in Procs |-> in], Formats)
    /\ calc = NoCalc

SpecData == InitData /\ [][Next]_vars

\* ------------------------------------------------------------------------
\* The loops of parseData and parseNginxData, one iteration at a time.
\* pc[1] is the place of the call: "start", in the group loop before the
\* data-ID ("group"), in the pair loop ("pair"), after the pair loop
\* ("groupEnd"), in the segment loop ("segment"), or "returned".  calc
\* holds the locals: the map data, the dataID of the group and the position
\* at which the iteration of the group loop began.  steps[1] lists the
\* iterations made: the position each began at, its loop and its error.
\* ------------------------------------------------------------------------
LoopResult(after, data, id, e, to) ==
    [buf |-> after, data |-> data, id |-> id, err |-> e,
     to |-> IF e # Nil THEN "returned" ELSE to]

\* parseData up to the loop, n being what nextIsNilValue returned.
enterDataStart(cb) == LoopResult(cb.buf, EmptyMap, <<>>, cb.err, "group")

enterData(n) ==
    IF n.err # Nil \/ n.isNil
    THEN LoopResult(n.buf, EmptyMap, <<>>, n.err, "returned")
    ELSE enterDataStart(checkByte(n.buf, dataStart))

\* The group loop from its top to the pair loop, id being what
\* parseSingleValue returned.
groupHead(id, data) ==
    IF id.err # Nil THEN LoopResult(id.buf, data, <<>>, id.err, "returned")
    ELSE LoopResult(ReadByte(id.buf).buf, (id.value :> EmptyMap) @@ data,
                    id.value, Nil, "pair")

\* One iteration of the pair loop: after the value, rb being the byte read.
pairNext(rb, data, id) ==
    IF rb.err # Nil THEN LoopResult(rb.buf, data, id, rb.err, "returned")
    ELSE IF rb.c = dataEnd THEN LoopResult(rb.buf, data, id, Nil, "groupEnd")
    ELSE IF rb.c # spaceByte
    THEN LoopResult(rb.buf, data, id,
                    newFormatError(Pos(rb.buf),
                        <<"expected byte ']' or ' ', but got", rb.c>>),
                    "returned")
    ELSE LoopResult(rb.buf, data, id, Nil, "pair")

pairValue(name, pv, data, id) ==
    IF pv.err # Nil THEN LoopResult(pv.buf, data, id, pv.err, "returned")
    ELSE pairNext(ReadByte(pv.buf),
                  IF pv.value # nilValue
                  THEN (id :> ((name :> pv.value) @@ data[id])) @@ data
                  ELSE data,
                  id)

pairIteration(pn, data, id) ==
    IF pn.err = EOF THEN LoopResult(pn.buf, data, id, Nil, "groupEnd")
    ELSE IF pn.err # Nil
    THEN LoopResult(pn.buf, data, id, pn.err, "returned")
    ELSE pairValue(pn.name, parseParamValue(pn.buf), data, id)

\* The group loop after the pair loop, rb being the byte read.
groupEnd(rb, data, id) ==
    IF rb.err = EOF THEN LoopResult(rb.buf, data, id, Nil, "returned")
    ELSE IF rb.c = spaceByte
    THEN LoopResult(UnreadByte(rb.buf).buf, data, id, UnreadByte(rb.buf).err,
                    "returned")
    ELSE IF rb.c # dataStart
    THEN LoopResult(rb.buf, data, id,
                    newFormatError(Pos(rb.buf),
                        <<"expected byte ' ' or ']', but got", rb.c>>),
                    "returned")
    ELSE LoopResult(rb.buf, data, id, Nil, "group")

\* One iteration of the segment loop of parseNginxData that goes on from
\* where it began, the segment unread.
segmentIterationInPlace(rs, bb, data) ==
    IF \A i \in 1..Len(bb) : bb[i] # colonByte
    THEN LoopResult(rs.buf, data, <<>>,
                    newFormatError(Pos(rs.buf) - 1,
                        <<"Expected to encounter ':', but didn't find one">>),
                    "returned")
    ELSE LoopResult([rs.buf EXCEPT !.position = @ - Len(rs.bytes)],
                    parseSegments(newBuffer(bb), data).data, <<>>, Nil,
                    "segment")

\* One iteration of the segment loop of parseNginxData, rs being what
\* ReadSlice returned and bb its bytes without the comma.
segmentIteration(rs, bb, data) ==
    IF \A i \in 1..Len(bb) : bb[i] # colonByte
    THEN LoopResult(rs.buf, data, <<>>,
                    newFormatError(Pos(rs.buf) - 1,
                        <<"Expected to encounter ':', but didn't find one">>),
                    "returned")
    ELSE LoopResult(rs.buf, parseSegments(newBuffer(bb), data).data, <<>>,
                    Nil, IF rs.err = EOF THEN "returned" ELSE "segment")

LoopInputs == DataInputs \cup NginxDataInputs

NoLocals == [data |-> EmptyMap, id |-> <<>>, start |-> 0]

InitLoop ==
    \E in \in LoopInputs :
        /\ formats = FuncFormats
        /\ format = [p \in Procs |-> in.format]
        /\ buf = [p \in Procs |-> IF p = 1 THEN newBuffer(in.bytes)
                                   ELSE newBuffer(<<>>)]
        /\ msg = [p \in Procs |-> Message]
        /\ pc = [p \in Procs |-> "start"]
        /\ state = [p \in Procs |-> IF p = 1 THEN "Running" ELSE "Idle"]
        /\ ret = [p \in Procs |-> NilMessage]
        /\ err = [p \in Procs |-> Nil]
        /\ steps = [p \in Procs |-> <<>>]
        /\ calc = NoLocals

\* The data as the function stores it in the Message when it returns nil.
storedData(data) ==
    IF format[1] = "parseNginxData" THEN (<<"d", "a", "t", "a">> :> data)
    ELSE data

\* The call went from the place at to where r leads: the cursor and the
\* locals are those of r; a return stores the data or hands on the error.
LoopReturn(at, r) ==
    /\ buf' = [buf EXCEPT ![1] = r.buf]
    /\ pc' = [pc EXCEPT ![1] = r.to]
    /\ calc' = [data |-> r.data, id |-> r.id,
                start |-> IF at = "group" THEN buf[1].position
                          ELSE calc.start]
    /\ steps' = [steps EXCEPT
                   ![1] = Append(@, [pc |-> buf[1].position, fn |-> at,
                                     err |-> r.err.kind])]
    /\ state' = [state EXCEPT
                   ![1] = IF r.err = Nil
                          THEN (IF r.to = "returned" THEN "Complete"
                                ELSE "Running")
                          ELSE stateAfter(r.err)]
    /\ err' = [err EXCEPT ![1] = r.err]
    /\ msg' = [msg EXCEPT
                 ![1] = IF r.err = Nil /\ r.to = "returned"
                             /\ at # "start"
                        THEN [@ EXCEPT !.Data = storedData(r.data)]
                        ELSE @]
    /\ UNCHANGED <<formats, format, ret>>

\* The running call makes at the place at the step whose result is result.
LoopStep(at, result) ==
    /\ state[1] = "Running"
    /\ \E r \in {result} : LoopReturn(at, r)

EnterParseData ==
    /\ pc[1] = "start"
    /\ format[1] = "parseData"
    /\ LoopStep("start", enterData(nextIsNilValue(buf[1])))

EnterParseNginxData ==
    /\ pc[1] = "start"
    /\ format[1] = "parseNginxData"
    /\ LoopStep("start", LoopResult(buf[1], EmptyMap, <<>>, Nil, "segment"))

GroupIteration ==
    /\ pc[1] = "group"
    /\ LoopStep("group",
                groupHead(parseSingleValue(buf[1], "data-ID", FALSE,
                                           maxDataIDLength),
                          calc.data))

PairIteration ==
    /\ pc[1] = "pair"
    /\ LoopStep("pair",
                pairIteration(parseParamName(buf[1]), calc.data, calc.id))

GroupIterationEnd ==
    /\ pc[1] = "groupEnd"
    /\ LoopStep("groupEnd", groupEnd(ReadByte(buf[1]), calc.data, calc.id))

SegmentIteration ==
    /\ pc[1] = "segment"
    /\ LoopStep("segment",
                segmentIteration(ReadSlice(buf[1], commaByte),
                                 TrimSuffix(ReadSlice(buf[1], commaByte).bytes,
                                            <<commaByte>>),
                                 calc.data))

NextLoop ==
    \/ EnterParseData
    \/ EnterParseNginxData
    \/ GroupIteration
    \/ PairIteration
    \/ GroupIterationEnd
    \/ SegmentIteration

SpecLoop == InitLoop /\ [][NextLoop]_vars

\* The goroutine of the call is scheduled again and again: a call that has
\* not returned makes its next iteration.  NextLoop is enabled exactly
\* while the call is running, so this is the weak fairness of NextLoop with
\* its enabling condition written out.
LoopFairness ==
    []<>(state[1] # "Running") \/ []<><<NextLoop>>_vars

SpecLoopFair == SpecLoop /\ LoopFairness

\* ------------------------------------------------------------------------
\* The contract of ParseMessage.
\* ------------------------------------------------------------------------
\* C1: ParseMessage returns normally for every input and each built-in
\* format: with a Message and no error, or with no Message and one error;
\* no input drives it into a fatal fault.
ReturnsNormally ==
    \A p \in Procs :
        /\ state[p] # "Panicked"
        /\ state[p] = "Complete" => ret[p] # NilMessage /\ err[p] = Nil
        /\ state[p] = "Failed" => ret[p] = NilMessage /\ err[p] # Nil

\* The steps p has called are the first steps of its format, in order.
calledInOrder(p) ==
    /\ Len(steps[p]) <= Len(formats[format[p]])
    /\ \A i \in 1..Len(steps[p]) :
          /\ steps[p][i].pc = i
          /\ steps[p][i].fn = formats[format[p]][i].fn

\* Every step p has called, but the last one, returned no error.
noStepAfterError(p) ==
    \A i \in 1..(Len(steps[p]) - 1) : steps[p][i].err = "nil"

lastError(p) ==
    IF steps[p] = <<>> THEN "nil" ELSE steps[p][Len(steps[p])].err

\* C2: ParseMessage calls the steps of the format in their listed order
\* and stops at the first step that returns an error: no later step is
\* called and no Message is returned; the Message is returned once every
\* step has been called without an error.
StepsInOrder ==
    \A p \in Procs :
        /\ calledInOrder(p)
        /\ noStepAfterError(p)
        /\ state[p] = "Running" =>
              lastError(p) = "nil" /\ pc[p] = Len(steps[p]) + 1
        /\ state[p] = "Complete" =>
              /\ Len(steps[p]) = Len(formats[format[p]])
              /\ lastError(p) = "nil"
              /\ ret[p] = msg[p]
              /\ err[p] = Nil
        /\ state[p] \in {"Failed", "Panicked"} =>
              /\ lastError(p) # "nil"
              /\ ret[p] = NilMessage
              /\ err[p] # Nil

\* A parse that stopped at an error in the middle of its format.
StoppedInTheMiddle ==
    \E p \in Procs :
        /\ state[p] = "Failed"
        /\ Len(steps[p]) > 2
        /\ Len(steps[p]) < Len(formats[format[p]])

\* ------------------------------------------------------------------------
\* Truncated lines.
\* ------------------------------------------------------------------------
\* The input of p is a proper prefix of a line that parses with its format.
truncated(p) ==
    \E l \in Lines :
        /\ l.format = format[p]
        /\ Len(buf[p].bytes) < Len(l.bytes)
        /\ IsPrefix(buf[p].bytes, l.bytes)
        /\ ParseMessage(l.bytes, Formats[l.format]).err = Nil

\* The step of p that returned the error.
failedStep(p) == steps[p][Len(steps[p])].fn

\* The steps that report a line that ends inside their field as malformed,
\* with the reason they give.
malformedAtCut ==
    { <<"parsePriority", <<"priority not closed">> >>,
      <<"parseTimestamp",
        <<"timestamp is not following an accepted format">> >>,
      <<"parseNginxData",
        <<"Expected to encounter ':', but didn't find one">> >>,
      <<"discardSpace", <<"expected byte, but got", spaceByte, dataEnd>> >> }

sameMessage(a, b) ==
    /\ a # NilMessage /\ b # NilMessage
    /\ TimeEqual(a.Timestamp, b.Timestamp)
    /\ [a EXCEPT !.Timestamp = ZeroTime] = [b EXCEPT !.Timestamp = ZeroTime]

\* C4: a Message parsed from an RFC5424 line, encoded with Bytes and
\* parsed again with the RFC5424 format, gives an equal Message.
RoundTrips ==
    \A p \in Procs :
        state[p] = "Complete" /\ format[p] = "RFC5424" =>
            LET again == ParseMessage(Bytes(ret[p]), Formats.RFC5424)
            IN  again.err = Nil /\ sameMessage(again.msg, ret[p])

\* ------------------------------------------------------------------------
\* The offset of a format error.
\* ------------------------------------------------------------------------
\* p failed in checkByte: the byte read is not the expected one.
byteMismatch(p) ==
    /\ state[p] = "Failed"
    /\ err[p].kind = "format"
    /\ err[p].reason[1] = "expected byte, but got"
    /\ failedStep(p) \in {"parsePriority", "discardSpace", "discardByte"}

\* C9 as stated: the offset of a format error counts the bytes from zero;
\* a wrong byte at the first position of the input is reported at 0.
OffsetFromZero ==
    \A p \in Procs :
        byteMismatch(p) =>
            /\ err[p].pos = buf[p].position - 1
            /\ buf[p].position = 1 => err[p].pos = 0

\* C9: the offset of the format error of a wrong byte counts the bytes
\* from one: it is the number of bytes read up to and including the wrong
\* byte; a wrong byte at the first position of the input is reported at 1.
OffsetFromOne ==
    \A p \in Procs :
        byteMismatch(p) =>
            /\ err[p].pos = buf[p].position
            /\ buf[p].bytes[err[p].pos] = err[p].reason[3]
            /\ buf[p].position = 1 => err[p].pos = 1

\* A wrong byte at the first position of the input.
WrongFirstByte ==
    \E p \in Procs :
        /\ byteMismatch(p)
        /\ buf[p].position = 1
        /\ buf[p].bytes[1] = "a"

\* ------------------------------------------------------------------------
\* Priority, facility and severity.
\* ------------------------------------------------------------------------
\* C5: for every N in 0..191, Priority(N).CalculateFacility() is N div 8,
\* Priority(N).CalculateSeverity() is N mod 8, and CalculatePriority of
\* the two is N again.
PriorityArithmetic ==
    calc.priority \in 0..maxPriority =>
        /\ calc.at \in {"facility", "severity", "priority"} =>
              calc.facility = calc.priority \div 8
        /\ calc.at \in {"severity", "priority"} =>
              calc.severity = calc.priority % 8
        /\ calc.at = "priority" => calc.again = calc.priority

\* The three calculations made for the highest valid priority.
HighestPriorityCalculated ==
    /\ calc.priority = maxPriority
    /\ calc.at = "priority"
    /\ calc.facility = maxFacility
    /\ calc.severity = maxSeverity

\* The N of the line "<N> ..." p parses.
priorityOf(p) ==
    LET b == buf[p].bytes
        close == CHOOSE i \in 1..Len(b) : b[i] = priorityEnd
    IN  DecVal(SubSeq(b, 2, close - 1))

\* The Message of a line of nil values with priority n.
nilMessage(n) ==
    [Message EXCEPT !.Priority = n, !.Facility = n \div 8,
                    !.Severity = n % 8]

\* C6: for every N in 0..191 the RFC5424 line "<N> - - - - - -" parses to
\* the Message with Priority N, Facility N div 8, Severity N mod 8 and
\* every other field at its zero value.
NilLineParses ==
    \A p \in Procs :
        state[p] # "Idle" =>
            /\ state[p] \in {"Running", "Complete"}
            /\ ParseMessage(buf[p].bytes, Formats.RFC5424) =
                  [msg |-> nilMessage(priorityOf(p)), err |-> Nil,
                   position |-> Len(buf[p].bytes)]
            /\ state[p] = "Complete" =>
                  ret[p] = nilMessage(priorityOf(p)) /\ err[p] = Nil

\* The line of the highest valid priority, parsed.
HighestNilLineParsed ==
    \E p \in Procs :
        /\ state[p] = "Complete"
        /\ priorityOf(p) = maxPriority
        /\ ret[p].Facility = maxFacility
        /\ ret[p].Severity = maxSeverity
        /\ ret[p].Hostname = <<>>

\* ------------------------------------------------------------------------
\* The bounded fields.
\* ------------------------------------------------------------------------
\* The bytes that end a value.
enders == {spaceByte, dataEnd, equalByte}

\* The length of the value of the field in the input of p.
valueLength(p) ==
    LET b == buf[p].bytes
        lead == Len(Fields[format[p]].lead)
        stops == {i \in (lead + 1)..Len(b) : b[i] \in enders}
        stop == IF stops = {} THEN Len(b) + 1
                ELSE CHOOSE i \in stops : \A j \in stops : i <= j
    IN  stop - lead - 1

tooLong(f) ==
    IF f = "parseParamName" THEN <<"data param name too long">>
    ELSE <<Fields[f].name, " too long">>

\* C7: every bounded field accepts a value no longer than its bound and
\* rejects a longer one with a format error naming the field, whether the
\* value ends at a space, at the end of the input or, for the id of a
\* group of structured data, at the closing bracket of the group.
BoundedFields ==
    \A p \in Procs :
        state[p] \in Returned /\ format[p] \in FieldNames =>
            /\ valueLength(p) <= Fields[format[p]].max =>
                  state[p] = "Complete"
            /\ valueLength(p) > Fields[format[p]].max =>
                  /\ state[p] = "Failed"
                  /\ err[p].kind = "format"
                  /\ err[p].reason = tooLong(format[p])

\* The offset discardByte reports for a wrong first byte of the input of p.
wrongFirstByteOffset(p) ==
    discardByte(dataEnd, newBuffer(buf[p].bytes), Message).err.pos

\* C8: the "too long" error of a field that starts at the first byte of
\* the input carries the offset discardByte reports for a wrong first
\* byte, whether the value runs to the end of the input or is followed by
\* a space.
TooLongAtFieldStart ==
    \A p \in Procs :
        /\ state[p] = "Failed"
        /\ format[p] \in FieldNames
        /\ Fields[format[p]].lead = <<>>
        /\ err[p].reason = tooLong(format[p])
        => err[p].pos = wrongFirstByteOffset(p)

\* ------------------------------------------------------------------------
\* Concurrent invocations.
\* ------------------------------------------------------------------------
\* What the sequential parse of the input of p returns.
solitary(p) == ParseMessage(buf[p].bytes, Formats[format[p]])

\* Every invocation that returned, returned what the sequential parse of
\* its input returns.
sameAsSolitary ==
    \A p \in Procs :
        state[p] \in Returned =>
            /\ ret[p] = solitary(p).msg
            /\ err[p] = solitary(p).err

\* A step changes the cursor and the Message of one invocation only, and
\* leaves the formats as they are.
ownCursorAndMessage ==
    /\ formats' = formats
    /\ \E p \in Procs :
          \A q \in Procs \ {p} :
              /\ buf'[q] = buf[q]
              /\ msg'[q] = msg[q]
              /\ state'[q] = state[q]
              /\ ret'[q] = ret[q]
              /\ err'[q] = err[q]

\* C10: ParseMessage invocations that run concurrently on the same
\* formats, each on its own input, return under every interleaving of
\* their steps what the sequential parse of their input returns; no step
\* touches the cursor or the Message of another invocation, and the
\* formats are never modified.
ConcurrentParses ==
    /\ [](sameAsSolitary /\ formats = Formats)
    /\ [][ownCursorAndMessage]_vars

\* Two invocations on different inputs returned, one its Message and one
\* its error.
TwoReturned ==
    \E p, q \in Procs :
        /\ state[p] = "Complete"
        /\ state[q] = "Failed"
        /\ buf[p].bytes # buf[q].bytes
        /\ ret[p] = solitary(p).msg
        /\ err[q] = solitary(q).err

\* ------------------------------------------------------------------------
\* The cursor.
\* ------------------------------------------------------------------------
\* The last call made on the cursor and the one before it.
called == steps[1] # <<>>

lastCall == steps[1][Len(steps[1])]

callBefore == steps[1][Len(steps[1]) - 1]

cursorInRange ==
    /\ buf[1].position >= 0
    /\ buf[1].position <= buf[1].length
    /\ buf[1].length = Len(buf[1].bytes)

\* UnreadByte called at position 0 panicked and left the position at 0.
unreadAtStartPanics ==
    called /\ lastCall.fn = "UnreadByte" /\ lastCall.pc = 0 =>
        state[1] = "Panicked" /\ buf[1].position = 0

\* C12: after any sequence of Peek(n), Discard(n), ReadByte, UnreadByte,
\* ReadSlice(c) and ReadAll calls, n >= 0, the position is between 0 and
\* the length, and the bytes and the length are those the cursor was
\* created with; UnreadByte at position 0 panics, the position does not
\* go below 0.
CursorInvariant ==
    /\ [](cursorInRange /\ unreadAtStartPanics)
    /\ [][buf'[1].bytes = buf[1].bytes /\ buf'[1].length = buf[1].length]_vars

\* Discard was asked more than there was, from the middle of the input.
DiscardedTooMuch ==
    /\ called
    /\ lastCall.fn = "Discard"
    /\ lastCall.pc > 0
    /\ lastCall.arg > buf[1].length - lastCall.pc
    /\ buf[1].position = buf[1].length

\* The last call was an UnreadByte that did not panic.
unreadSucceeded ==
    called /\ lastCall.fn = "UnreadByte" /\ state[1] = "Running"

afterSuccessfulReadByte ==
    /\ Len(steps[1]) >= 2
    /\ callBefore.fn = "ReadByte"
    /\ callBefore.err = Nil.kind

\* C13 as stated: the position only moves forward except for a single
\* one-byte unread, and UnreadByte is legal only when the call right
\* before it was a successful ReadByte: after Peek, Discard, ReadSlice,
\* ReadAll, a ReadByte at the end of the input or another UnreadByte it
\* panics.
UnreadOnlyAfterReadByte ==
    /\ called /\ lastCall.fn # "UnreadByte" =>
          buf[1].position >= lastCall.pc
    /\ unreadSucceeded => afterSuccessfulReadByte

\* C13, amended: the position only moves forward except for one-byte
\* unreads: UnreadByte succeeds whenever the position is above 0, whatever
\* the call before it was, and moves the position back by exactly one; it
\* panics only at position 0.
UnreadAbovePositionZero ==
    /\ called /\ lastCall.fn # "UnreadByte" =>
          buf[1].position >= lastCall.pc
    /\ called /\ lastCall.fn = "UnreadByte" /\ lastCall.pc > 0 =>
          state[1] = "Running" /\ buf[1].position = lastCall.pc - 1
    /\ called /\ lastCall.fn = "UnreadByte" /\ lastCall.pc = 0 =>
          state[1] = "Panicked"

\* UnreadByte succeeded right after a ReadSlice, as parseSingleValue
\* calls it.
UnreadAfterReadSlice ==
    /\ unreadSucceeded
    /\ Len(steps[1]) >= 2
    /\ callBefore.fn = "ReadSlice"
    /\ buf[1].position = lastCall.pc - 1

\* The places, counted from 1, at or after the position of the last call
\* where its argument stands in the input.
occurrences ==
    {i \in (lastCall.pc + 1)..buf[1].length : buf[1].bytes[i] = lastCall.arg}

firstOccurrence == CHOOSE i \in occurrences : \A j \in occurrences : i <= j

\* C14: ReadSlice(c) called at position p, when c occurs at or after p,
\* returns the bytes from p through the first such occurrence inclusive
\* with no error and leaves the position right after it; otherwise it
\* returns all the bytes from p to the end with io.EOF and leaves the
\* position at the length.
ReadSliceToFirstOccurrence ==
    called /\ lastCall.fn = "ReadSlice" =>
        IF occurrences # {}
        THEN /\ lastCall.out =
                    SubSeq(buf[1].bytes, lastCall.pc + 1, firstOccurrence)
             /\ lastCall.err = Nil.kind
             /\ buf[1].position = firstOccurrence
        ELSE /\ lastCall.out =
                    SubSeq(buf[1].bytes, lastCall.pc + 1, buf[1].length)
             /\ lastCall.err = EOF.kind
             /\ buf[1].position = buf[1].length

\* ReadSlice, called past the start, stopped at the first of two
\* occurrences.
ReadSliceStoppedAtFirst ==
    /\ called
    /\ lastCall.fn = "ReadSlice"
    /\ lastCall.pc > 0
    /\ Cardinality(occurrences) = 2
    /\ lastCall.err = Nil.kind
    /\ buf[1].position = firstOccurrence
    /\ buf[1].position < buf[1].length

\* ------------------------------------------------------------------------
\* The parse functions one by one.
\* ------------------------------------------------------------------------
\* The first function of the format fn has been called on the input.
firstCalled(fn) == format[1] = fn /\ Len(steps[1]) >= 1

input == buf[1].bytes

\* The first step failed with a format error of this wording.
failedWith(reason) ==
    /\ state[1] = "Failed"
    /\ err[1].kind = "format"
    /\ err[1].reason[1] = reason

\* The places of '>' in the input, and the bytes between '<' and the first.
closings == {i \in 2..Len(input) : input[i] = priorityEnd}

priorityContent ==
    SubSeq(input, 2, (CHOOSE i \in closings : \A j \in closings : i <= j) - 1)

isDecimalInteger(s) ==
    \/ Len(s) >= 1 /\ AllDigits(s)
    \/ Len(s) >= 2 /\ s[1] \in {"+", "-"} /\ AllDigits(Tail(s))

decimalValue(s) ==
    IF s[1] = "-" THEN 0 - DecVal(Tail(s))
    ELSE IF s[1] = "+" THEN DecVal(Tail(s)) ELSE DecVal(s)

\* C11: parsePriority on input that starts with '<' has one outcome, by
\* this precedence: no '>' in the rest gives "priority not closed"; else
\* more than 3 bytes before the first '>' give "priority too long"; else
\* no bytes give "priority can't be empty"; else bytes that are not a
\* decimal integer give "priority not a number"; otherwise it succeeds and
\* sets Priority.  On every error the Message is unchanged.
PriorityOutcomes ==
    firstCalled("parsePriority") /\ input[1] = priorityStart =>
        IF closings = {}
        THEN failedWith("priority not closed") /\ msg[1] = Message
        ELSE IF Len(priorityContent) > maxPriorityLength
        THEN failedWith("priority too long") /\ msg[1] = Message
        ELSE IF Len(priorityContent) = 0
        THEN failedWith("priority can't be empty") /\ msg[1] = Message
        ELSE IF ~isDecimalInteger(priorityContent)
        THEN failedWith("priority not a number: ") /\ msg[1] = Message
        ELSE /\ state[1] # "Failed"
             /\ msg[1] = [Message EXCEPT
                            !.Priority = Uint8(decimalValue(priorityContent))]

\* A priority that is both too long and not a number was found too long.
TooLongBeforeNotANumber ==
    /\ firstCalled("parsePriority")
    /\ closings # {}
    /\ Len(priorityContent) > maxPriorityLength
    /\ ~isDecimalInteger(priorityContent)
    /\ failedWith("priority too long")
    /\ msg[1] = Message

\* C15: parseVersion, when no bytes remain or the next byte is a space,
\* succeeds, consumes nothing and leaves Version at its default; when it
\* succeeds otherwise it sets Version to the decimal value of the one or
\* two digit bytes it converted and advances the cursor by that many
\* bytes; when it fails ("version not a number") the position of the
\* cursor and the Message are unchanged.
VersionFrame ==
    firstCalled("parseVersion") =>
        IF Len(input) = 0 \/ input[1] = spaceByte
        THEN /\ state[1] # "Failed"
             /\ buf[1].position = 0
             /\ msg[1] = Message
        ELSE IF state[1] = "Failed"
        THEN /\ failedWith("version not a number: ")
             /\ buf[1].position = 0
             /\ msg[1] = Message
        ELSE \E n \in 1..maxVersionLength :
                /\ n <= Len(input)
                /\ AllDigits(SubSeq(input, 1, n))
                /\ n < Len(input) /\ n < maxVersionLength =>
                      input[n + 1] = spaceByte
                /\ msg[1] = [Message EXCEPT
                               !.Version = DecVal(SubSeq(input, 1, n))]
                /\ buf[1].position = n

\* One digit before a space: the version is that digit and the cursor is
\* at the space.
OneDigitVersion ==
    /\ firstCalled("parseVersion")
    /\ Len(input) = 3
    /\ input[2] = spaceByte
    /\ msg[1].Version = 9
    /\ buf[1].position = 1

\* A version that is not a number: nothing was consumed.
VersionNotANumber ==
    /\ firstCalled("parseVersion")
    /\ failedWith("version not a number: ")
    /\ buf[1].position = 0

\* The second function of the format fn has been called, after the first
\* consumed the first byte of the input.
secondCalled(fn) == format[1] = fn /\ Len(steps[1]) >= 2

afterFirstByte == SubSeq(input, 2, Len(input))

timestampFormats == formats["parseTimestamp"][2].arg

\* The formats whose width of bytes is there and parses.
matchingFormats ==
    {i \in 1..Len(timestampFormats) :
        /\ Len(afterFirstByte) >= LayoutLen(timestampFormats[i])
        /\ ParseInLocation(timestampFormats[i],
              SubSeq(afterFirstByte, 1, LayoutLen(timestampFormats[i]))).ok}

firstMatching ==
    timestampFormats[CHOOSE i \in matchingFormats :
                        \A j \in matchingFormats : i <= j]

\* C16: parseTimestamp first consumes a nil marker if one is next and
\* leaves Timestamp absent; otherwise it tries the formats in their order,
\* each on a lookahead of that format's width that consumes nothing,
\* stores the result of the first that matches and advances the cursor by
\* that format's width; when the lookahead is short for every format or
\* no format matches it fails with a format error and the cursor is where
\* it was on entry.
TimestampLookahead ==
    secondCalled("parseTimestamp") =>
        IF Len(afterFirstByte) >= 1 /\ afterFirstByte[1] = nilValueByte
        THEN /\ state[1] # "Failed"
             /\ msg[1] = Message
             /\ buf[1].position = 2
        ELSE IF matchingFormats = {}
        THEN /\ failedWith("timestamp is not following an accepted format")
             /\ msg[1] = Message
             /\ buf[1].position = 1
        ELSE /\ state[1] # "Failed"
             /\ msg[1] = [Message EXCEPT
                   !.Timestamp =
                      ParseInLocation(firstMatching,
                          SubSeq(afterFirstByte, 1,
                                 LayoutLen(firstMatching))).t]
             /\ buf[1].position = 1 + LayoutLen(firstMatching)

\* The second format matched after the first did not, and the cursor is
\* right after its width.
SecondFormatMatched ==
    /\ secondCalled("parseTimestamp")
    /\ matchingFormats = {2}
    /\ state[1] # "Failed"
    /\ ~IsZero(msg[1].Timestamp)
    /\ buf[1].position = 1 + LayoutLen("RFC3339Nano")
    /\ buf[1].position < buf[1].length

\* No format matched bytes that were long enough for the first of them.
NoFormatMatched ==
    /\ secondCalled("parseTimestamp")
    /\ Len(afterFirstByte) >= LayoutLen("RFC3339")
    /\ failedWith("timestamp is not following an accepted format")
    /\ buf[1].position = 1

\* The places of the spaces of the input, and the bytes before the first.
spaces == {i \in 1..Len(input) : input[i] = spaceByte}

firstValue ==
    SubSeq(input, 1, (CHOOSE i \in spaces : \A j \in spaces : i <= j) - 1)

\* The first step of a function that parses one value succeeded on a
\* value, not the nil marker alone, that a space ends.
valueBeforeSpaceParsed ==
    /\ format[1] \in ValueFuncs
    /\ Len(steps[1]) >= 1
    /\ steps[1][1].err = Nil.kind
    /\ spaces # {}
    /\ firstValue # nilValue

\* C17: after parseHostname, parseAppname, parseProcessID or
\* parseMessageID succeeds on a value that a space ends, the field holds
\* the bytes before that space and the cursor is at that space, which is
\* not consumed, so that a discardSpace step right after it succeeds.
ValueLeavesSpace ==
    valueBeforeSpaceParsed =>
        /\ valueField(format[1], msg[1]) = firstValue
        /\ Len(steps[1]) = 1 => buf[1].position = Len(firstValue)
        /\ Len(steps[1]) = 2 =>
              /\ steps[1][2].err = Nil.kind
              /\ buf[1].position = Len(firstValue) + 1

\* The nil marker is the first byte and no value follows it.
standsAlone ==
    /\ Len(input) >= 1
    /\ input[1] = nilValueByte
    /\ Len(input) >= 2 => input[2] = spaceByte

\* The first step of a function that parses one value succeeded.
valueParsed ==
    /\ format[1] \in ValueFuncs
    /\ Len(steps[1]) = 1
    /\ steps[1][1].err = Nil.kind

\* C18: a '-' is the nil marker, the field absent and one byte consumed,
\* only when it stands alone, followed by the separator or by the end of
\* the input; a value that only begins with '-', as the hostname "-host",
\* is parsed as a value and stored in full.
NilMarkerStandsAlone ==
    valueParsed /\ Len(input) >= 1 /\ input[1] = nilValueByte =>
        IF standsAlone
        THEN /\ valueField(format[1], msg[1]) = <<>>
             /\ buf[1].position = 1
        ELSE /\ valueField(format[1], msg[1]) =
                   (IF spaces = {} THEN input ELSE firstValue)
             /\ buf[1].position =
                   (IF spaces = {} THEN Len(input) ELSE Len(firstValue))

\* parseData returned without an error.
dataParsed ==
    /\ format[1] = "parseData"
    /\ Len(steps[1]) >= 1
    /\ steps[1][1].err = Nil.kind

\* The sections the input is the bytes of, with or without a message
\* after them.
sectionsOfInput ==
    {d \in DataSections :
        \/ input = renderSection(d)
        \/ input = renderSection(d) \o <<spaceByte, "m">>}

\* The pairs of a group that are not nil, and the names they give.
realPairs(g) ==
    {i \in 1..Len(g.pairs) : g.pairs[i].value # nilValue}

realNames(g) == {g.pairs[i].name : i \in realPairs(g)}

\* C19: after a successful parseData no inner map holds the value "-": a
\* pair written name="-" adds no entry for name, while the outer key of
\* its group is still in Data, with an empty inner map when all its pairs
\* were nil.
NilValuesOmitted ==
    dataParsed =>
        /\ \A id \in DOMAIN msg[1].Data :
              \A name \in DOMAIN msg[1].Data[id] :
                  msg[1].Data[id][name] # nilValue
        /\ \A d \in sectionsOfInput :
              \A i \in 1..Len(d) :
                  Len(d[i].pairs) > Cardinality(realPairs(d[i])) =>
                      /\ d[i].id \in DOMAIN msg[1].Data
                      /\ DOMAIN msg[1].Data[d[i].id] = realNames(d[i])

\* How many times the byte c stands in the bytes s.
RECURSIVE count(_, _)
count(c, s) ==
    IF s = <<>> THEN 0
    ELSE (IF s[1] = c THEN 1 ELSE 0) + count(c, Tail(s))

\* C20: parseData succeeds on bracketed input only if every group it
\* opened with '[' was ended by a ']' read from the input: input that ends
\* inside a group, after the outer key or after a name="value" pair and a
\* space, makes it fail.
GroupsAreClosed ==
    dataParsed /\ Len(input) >= 1 /\ input[1] = dataStart =>
        count(dataStart, SubSeq(input, 1, buf[1].position))
            = count(dataEnd, SubSeq(input, 1, buf[1].position))

\* ------------------------------------------------------------------------
\* Structured data and the message after it.
\* ------------------------------------------------------------------------
\* The sections and the texts the line of the call is made of.
linesOfInput ==
    {dt \in DataSections \X dataLineTexts :
        input = dataLineHead \o renderSection(dt[1]) \o dt[2]}

\* C21: for the RFC5424 format, a structured-data section followed by a
\* space and text, a group without any pair as in "[id] text" included,
\* yields Data whose outer keys are the ids written after each '[',
\* without the closing bracket, and Message equal to the trimmed text
\* after the space: parseData stops with that space unconsumed.
DataThenMessage ==
    state[1] \in Returned /\ format[1] = "RFC5424" =>
        \A dt \in linesOfInput :
            /\ state[1] = "Complete"
            /\ DOMAIN ret[1].Data = {dt[1][i].id : i \in 1..Len(dt[1])}
            /\ ret[1].Message = TrimSpace(Tail(dt[2]))

\* The byte the one step of the format discardByte or discardSpace
\* expects.
expectedByte ==
    IF format[1] = "discardByte" THEN formats["discardByte"][1].arg
    ELSE spaceByte

\* C22: discardByte(c), and discardSpace, which is discardByte(' '),
\* consumes one byte only when the next byte is c; when the next byte
\* differs it fails with a format error that names the expected and the
\* actual byte and leaves the position of the cursor unchanged; at the end
\* of the input it signals insufficient input.
DiscardByteFrame ==
    format[1] \in {"discardByte", "discardSpace"} /\ Len(steps[1]) >= 1 =>
        IF input = <<>>
        THEN /\ state[1] = "Failed"
             /\ steps[1][1].err = EOF.kind
             /\ buf[1].position = 0
        ELSE IF input[1] = expectedByte
        THEN /\ state[1] # "Failed"
             /\ buf[1].position = 1
        ELSE /\ state[1] = "Failed"
             /\ err[1].kind = "format"
             /\ err[1].reason =
                   <<"expected byte, but got", expectedByte, input[1]>>
             /\ buf[1].position = 0

\* The optional step of the format of the call, and what its two wrapped
\* steps give one after the other on the input.
optionalStep == formats[format[1]][1].arg

firstWrapped == ApplyStep(optionalStep.fns[1], newBuffer(input), Message)

secondWrapped ==
    ApplyStep(optionalStep.fns[2], firstWrapped.buf, firstWrapped.msg)

\* The step of the call failed with the error e of a wrapped step.
failedAs(e) == state[1] = "Failed" /\ err[1] = returnedError(e)

\* C23: optional(w, steps...), when fewer than w bytes remain, succeeds
\* and leaves the position of the cursor and the Message unchanged, and
\* runs none of the wrapped steps; when at least w bytes remain it runs
\* every wrapped step in order, and the failure of any of them, a step
\* after the first included, is the failure of the optional step.
OptionalChecksOnce ==
    format[1] \in {"optional", "optionalBytes"} /\ Len(steps[1]) >= 1 =>
        IF Len(input) < optionalStep.peekLength
        THEN /\ state[1] # "Failed"
             /\ buf[1].position = 0
             /\ msg[1] = Message
        ELSE IF firstWrapped.err # Nil THEN failedAs(firstWrapped.err)
        ELSE IF secondWrapped.err # Nil THEN failedAs(secondWrapped.err)
        ELSE /\ state[1] # "Failed"
             /\ buf[1] = secondWrapped.buf
             /\ msg[1] = secondWrapped.msg

\* The second wrapped step failed after the first succeeded, and optional
\* failed with it.
SecondWrappedFailed ==
    /\ format[1] = "optionalBytes"
    /\ Len(steps[1]) >= 1
    /\ Len(input) >= optionalStep.peekLength
    /\ firstWrapped.err = Nil
    /\ secondWrapped.err # Nil
    /\ failedAs(secondWrapped.err)

\* ------------------------------------------------------------------------
\* The nginx parse functions.
\* ------------------------------------------------------------------------
\* The places of the commas of the input.
commas == {i \in 1..Len(input) : input[i] = commaByte}

firstComma == CHOOSE i \in commas : \A j \in commas : i <= j

\* C24: parseNginxMsg stores as Message the text before the first comma,
\* the comma removed and the whitespace around it trimmed (" message ,"
\* gives "message"), and consumes through that comma; when no comma
\* remains it fails with insufficient input and leaves Message unset.
NginxMsgTrimmed ==
    firstCalled("parseNginxMsg") =>
        IF commas = {}
        THEN /\ state[1] = "Failed"
             /\ steps[1][1].err = EOF.kind
             /\ msg[1] = Message
        ELSE /\ state[1] # "Failed"
             /\ msg[1].Message = TrimSpace(SubSeq(input, 1, firstComma - 1))
             /\ buf[1].position = firstComma

\* The first of the comma separated segments of s that holds no colon;
\* none when every segment holds one.
RECURSIVE firstColonless(_)
firstColonless(s) ==
    LET cs == {i \in 1..Len(s) : s[i] = commaByte}
        end == IF cs = {} THEN Len(s) + 1
               ELSE CHOOSE i \in cs : \A j \in cs : i <= j
        segment == SubSeq(s, 1, end - 1)
    IN  IF \A i \in 1..Len(segment) : segment[i] # colonByte
        THEN [found |-> TRUE, segment |-> segment]
        ELSE IF cs = {} THEN [found |-> FALSE, segment |-> <<>>]
        ELSE firstColonless(SubSeq(s, end + 1, Len(s)))

\* The bytes part stand somewhere in the reason of an error.
namedIn(part, reason) ==
    \E i \in 1..(Len(reason) - Len(part) + 1) :
        SubSeq(reason, i, i + Len(part) - 1) = part

\* C25: parseNginxData never succeeds on input that holds a comma
\* separated segment without a colon, the empty input and a last segment
\* without a colon included: it fails with an error whose reason names
\* the malformed segment, and the failed call leaves msg.Data unchanged.
ColonlessSegmentNamed ==
    /\ firstCalled("parseNginxData")
    /\ \A i \in 1..Len(input) : input[i] # qouteByte
    /\ firstColonless(input).found
    => /\ state[1] = "Failed"
       /\ err[1].kind = "format"
       /\ namedIn(TrimSpace(firstColonless(input).segment), err[1].reason)
       /\ msg[1].Data = EmptyMap

\* C26: in parseNginxData a comma or a colon inside a double-quoted key or
\* value separates neither segments nor key and value: the input
\* "a:b": "c,b", quotes included, parses to the one entry with key a:b and
\* value c,b.
QuotedSeparatorsKept ==
    firstCalled("parseNginxData") /\ input = quotedNginxData =>
        /\ state[1] # "Failed"
        /\ msg[1].Data =
              (<<"d", "a", "t", "a">> :>
                  (<<"a", colonByte, "b">> :> <<"c", commaByte, "b">>))

\* ------------------------------------------------------------------------
\* What ParseMessage leaves of the input.
\* ------------------------------------------------------------------------
\* C27: whenever ParseMessage with the RFC5424 format succeeds, the
\* position of the cursor is the length of the input: every byte was
\* consumed by some step, no bytes after the structured data are silently
\* ignored.
Rfc5424ConsumesAll ==
    \A p \in Procs :
        state[p] = "Complete" /\ format[p] = "RFC5424" =>
            buf[p].position = buf[p].length

\* C28: whenever ParseMessage returns the incomplete-message error
\* (io.ErrUnexpectedEOF) for a built-in format, the position of the cursor
\* is the length of the input when the failing step returns: insufficient
\* input is never signalled while unread bytes remain.
IncompleteAtEnd ==
    \A p \in Procs :
        state[p] = "Failed" /\ err[p] = ErrUnexpectedEOF =>
            buf[p].position = buf[p].length

\* A discard step that found too few bytes left reported the line as
\* incomplete, with the cursor at the end.
DiscardReportedIncomplete ==
    \E p \in Procs :
        /\ state[p] = "Failed"
        /\ err[p] = ErrUnexpectedEOF
        /\ failedStep(p) = "discard"
        /\ steps[p][Len(steps[p])].pc > 1
        /\ buf[p].position = buf[p].length

\* ------------------------------------------------------------------------
\* The width of Priority.
\* ------------------------------------------------------------------------
\* parsePriority was called on a priority that is closed and not too long.
priorityRead ==
    /\ firstCalled("parsePriority")
    /\ closings # {}
    /\ Len(priorityContent) \in 1..maxPriorityLength

\* C29: for every priority text of one to three decimal digits with value
\* N, 0 to 999, a successful parsePriority stores Priority = N: no value
\* is reduced modulo 256 by the 8-bit type of Priority, and content with a
\* sign character is not accepted as a number.
PriorityStoredExactly ==
    priorityRead =>
        /\ AllDigits(priorityContent) /\ state[1] # "Failed" =>
              msg[1].Priority = DecVal(priorityContent)
        /\ priorityContent[1] \in {"+", "-"} => state[1] = "Failed"

\* ------------------------------------------------------------------------
\* The loops of parseData and of parseNginxData.
\* ------------------------------------------------------------------------
\* The iteration being made stays in its loop: the pair loop or the segment
\* loop starts over, or the group loop is entered again.
staysIn(loop) ==
    /\ pc[1] = (IF loop = "group" THEN "groupEnd" ELSE loop)
    /\ pc'[1] = loop

iterations(loop) ==
    {i \in 1..Len(steps[1]) : steps[1][i].fn = loop}

\* C30: for every finite input, parseData and parseNginxData return: every
\* iteration of the pair loop and of the segment loop that starts the loop
\* over leaves the cursor strictly further than it found it, every
\* iteration of the group loop that enters the loop again leaves the cursor
\* strictly further than where the iteration began, and the call returns
\* in the end.
LoopsAdvanceAndReturn ==
    /\ [][/\ staysIn("pair") => buf'[1].position > buf[1].position
          /\ staysIn("segment") => buf'[1].position > buf[1].position
          /\ staysIn("group") => buf'[1].position > calc.start]_vars
    /\ <>(state[1] \in Returned)

\* Each of the loops went round more than once and the call returned.
LoopWentRoundAndReturned ==
    /\ state[1] \in Returned
    /\ \/ Cardinality(iterations("segment")) > 1
       \/ /\ Cardinality(iterations("group")) > 1
          /\ Cardinality(iterations("pair")) > 2

====
